---------------------------- MODULE Spec2Model ----------------------------
(***************************************************************************)
(* talkeq: raid dump collector, presence store, roster dump parser,        *)
(* dispatch hub and keep-alive supervisor.                                 *)
(*                                                                         *)
(* Text lines are modelled as sequences of tokens.  A token is a maximal   *)
(* run of \w characters (a digits token when every character is a digit,   *)
(* a word token otherwise), a single punctuation character, or a run of    *)
(* whitespace.  Two \w tokens are therefore never adjacent, and neither    *)
(* are two whitespace tokens.                                              *)
(***************************************************************************)
EXTENDS Integers, Sequences, FiniteSets, TLC

(***************************************************************************)
(* Bounds of the model.                                                    *)
(***************************************************************************)
MaxDumpLines == 2
MaxCallbacks == 1
MaxPlayers == 2
NumSubscribers == 2

(***************************************************************************)
(* Token alphabet.                                                         *)
(***************************************************************************)
DigitTokens == {"1", "2", "55", "60"}

WordTokens == {"A", "a", "B", "Bob", "Warrior", "Cleric", "Shadow", "Knight",
               "Group", "Raid", "Members", "total", "raid", "members",
               "raiders", "End", "of", "Total", "bob", "Name", "Level",
               "ShadowKnight", "WIZARD", "Unknown", "Class"}

PunctTokens == {"|", ":", "(", ")", "[", "]", "-", "#"}

\* " " is one space, "  " a run of spaces, "\t" a run holding a tab
SpaceTokens == {" ", "  "}
WSTokens == SpaceTokens \cup {"\t"}

\* tokens that are one character long
SingleCharTokens == {"1", "2", "A", "a", "B"}

IsDigits(t) == t \in DigitTokens
IsWordTok(t) == t \in DigitTokens \cup WordTokens
IsWS(t) == t \in WSTokens

\* strings.ToLower on one token
ToLowerTok(t) ==
    CASE t = "A" -> "a"
      [] t = "B" -> "b"
      [] t = "Bob" -> "bob"
      [] t = "Warrior" -> "warrior"
      [] t = "Cleric" -> "cleric"
      [] t = "Shadow" -> "shadow"
      [] t = "Knight" -> "knight"
      [] t = "Group" -> "group"
      [] t = "Raid" -> "raid"
      [] t = "Members" -> "members"
      [] t = "End" -> "end"
      [] t = "Total" -> "total"
      [] t = "Name" -> "name"
      [] t = "Level" -> "level"
      [] t = "ShadowKnight" -> "shadowknight"
      [] t = "WIZARD" -> "wizard"
      [] t = "Unknown" -> "unknown"
      [] t = "Class" -> "class"
      [] OTHER -> t

ToLower(s) == [i \in 1..Len(s) |-> ToLowerTok(s[i])]

\* strconv.Atoi on a digits token
Atoi(t) ==
    CASE t = "1" -> 1
      [] t = "2" -> 2
      [] t = "55" -> 55
      [] t = "60" -> 60
      [] OTHER -> 0

RECURSIVE TrimLeft(_)
TrimLeft(s) ==
    IF s # <<>> /\ IsWS(Head(s)) THEN TrimLeft(Tail(s)) ELSE s

RECURSIVE TrimRight(_)
TrimRight(s) ==
    IF s # <<>> /\ IsWS(s[Len(s)]) THEN TrimRight(SubSeq(s, 1, Len(s) - 1)) ELSE s

\* strings.TrimSpace
TrimSpace(s) == TrimRight(TrimLeft(s))

\* the literal lit is a prefix of the token t, compared ignoring case
\* (an unanchored pattern end accepts any continuation of its last word)
HasPrefixFold(t, lit) ==
    \/ ToLowerTok(t) = lit
    \/ (lit = "raid" /\ ToLowerTok(t) = "raiders")

\* s begins with the tokens of lits compared ignoring case, the last of
\* them possibly continued
StartsWithFold(s, lits) ==
    /\ Len(s) >= Len(lits)
    /\ \A i \in 1..(Len(lits) - 1) : ToLowerTok(s[i]) = lits[i]
    /\ IF IsWordTok(lits[Len(lits)])
          THEN HasPrefixFold(s[Len(lits)], lits[Len(lits)])
          ELSE s[Len(lits)] = lits[Len(lits)]

(***************************************************************************)
(* raid: patterns                                                          *)
(***************************************************************************)
\* raidDumpStartPatterns
MatchesStart(s) ==
    \/ StartsWithFold(s, <<"raid", " ", "members", ":">>)
    \/ StartsWithFold(s, <<"players", " ", "on", " ", "raid", ":">>)
    \/ StartsWithFold(s, <<"#", "raidlist">>)
    \/ StartsWithFold(s, <<"raid", " ", "roster">>)

\* raidDumpEndPatterns
MatchesEnd(s) ==
    \/ /\ s # <<>>
       /\ IsDigits(s[1])
       /\ StartsWithFold(Tail(s), <<" ", "total", " ", "raid", " ", "members">>)
    \/ StartsWithFold(s, <<"end", " ", "of", " ", "raid">>)
    \/ StartsWithFold(s, <<"-", "-", "-">>)

\* text matched by [\w ]+ : word tokens and runs of spaces
IsClassText(s) ==
    /\ s # <<>>
    /\ \A i \in 1..Len(s) : IsWordTok(s[i]) \/ s[i] \in SpaceTokens

\* classMap of normalizeClass
ClassMap(k) ==
    CASE k = <<"bard">> -> "BARD"
      [] k = <<"beastlord">> -> "BEASTLORD"
      [] k = <<"berserker">> -> "BERSERKER"
      [] k = <<"cleric">> -> "CLERIC"
      [] k = <<"druid">> -> "DRUID"
      [] k = <<"enchanter">> -> "ENCHANTER"
      [] k = <<"magician">> -> "MAGICIAN"
      [] k = <<"monk">> -> "MONK"
      [] k = <<"necromancer">> -> "NECROMANCER"
      [] k = <<"paladin">> -> "PALADIN"
      [] k = <<"ranger">> -> "RANGER"
      [] k = <<"rogue">> -> "ROGUE"
      [] k = <<"shadow", " ", "knight">> -> "SHADOWKNIGHT"
      [] k = <<"shadowknight">> -> "SHADOWKNIGHT"
      [] k = <<"shaman">> -> "SHAMAN"
      [] k = <<"warrior">> -> "WARRIOR"
      [] k = <<"wizard">> -> "WIZARD"
      [] OTHER -> "UNKNOWN"

\* mutant: the input is looked up without trimming
normalizeClassUntrimmed(input) == ClassMap(ToLower(input))

normalizeClass(input) == ClassMap(TrimSpace(ToLower(input)))

NoMember == [ok |-> FALSE, Name |-> "", Level |-> 0, Class |-> "", GroupNumber |-> 0]

\* mutant: level and group number are exchanged
MemberGroupAsLevel(name, level, class, group) ==
    [ok |-> TRUE, Name |-> name, Level |-> group, Class |-> class, GroupNumber |-> level]

Member(name, level, class, group) ==
    [ok |-> TRUE, Name |-> name, Level |-> level, Class |-> class, GroupNumber |-> group]

\* index of the n-th "|" of s, 0 when there is none
RECURSIVE PipeIndex(_, _, _)
PipeIndex(s, n, from) ==
    IF from > Len(s) THEN 0
    ELSE IF s[from] = "|"
         THEN IF n = 1 THEN from ELSE PipeIndex(s, n - 1, from + 1)
         ELSE PipeIndex(s, n, from + 1)

NotWS(t) == ~IsWS(t)

\* raidMemberPatterns[0]: ^\s*(\d+)\s*\|\s*(\w+)\s*\|\s*(\d+)\s*\|\s*(\w[\w ]*\w)\s*$
MatchPipe(line) ==
    LET s == TrimSpace(line)
        p == PipeIndex(s, 3, 1)
        head == SelectSeq(SubSeq(s, 1, p), NotWS)
        class == TrimLeft(SubSeq(s, p + 1, Len(s)))
    IN  IF /\ p > 0
           /\ Len(head) = 6
           /\ IsDigits(head[1]) /\ head[2] = "|"
           /\ IsWordTok(head[3]) /\ head[4] = "|"
           /\ IsDigits(head[5])
           /\ IsClassText(class)
           /\ IsWordTok(class[1]) /\ IsWordTok(class[Len(class)])
           /\ ~(Len(class) = 1 /\ class[1] \in SingleCharTokens)
        THEN [ok |-> TRUE, m |-> <<head[1], head[3], head[5], class>>]
        ELSE [ok |-> FALSE, m |-> <<>>]

\* raidMemberPatterns[1]: ^\s*(\w+)\s+(\d+)\s+([\w ]+?)\s+(?:Group\s+)?(\d+)\s*$
MatchColumns(line) ==
    LET s == TrimSpace(line)
        n == Len(s)
        \* the lazy class stops before an optional Group word when it can
        classEnd == IF n >= 9 /\ s[n - 2] = "Group" THEN n - 4 ELSE n - 2
        class == SubSeq(s, 5, classEnd)
    IN  IF /\ n >= 7
           /\ \A i \in 1..n : IF i % 2 = 1 THEN IsWordTok(s[i]) ELSE IsWS(s[i])
           /\ IsDigits(s[3])
           /\ IsDigits(s[n])
           /\ IsClassText(class)
        THEN [ok |-> TRUE, m |-> <<s[1], s[3], class, s[n]>>]
        ELSE [ok |-> FALSE, m |-> <<>>]

\* raidMemberPatterns[2]: ^\s*(\w+)\s+\((\d+)\s+([\w ]+?)\)\s*$
MatchParen(line) ==
    LET s == TrimSpace(line)
        n == Len(s)
        class == SubSeq(s, 6, n - 1)
    IN  IF /\ n >= 7
           /\ IsWordTok(s[1]) /\ IsWS(s[2]) /\ s[3] = "("
           /\ IsDigits(s[4]) /\ IsWS(s[5])
           /\ s[n] = ")"
           /\ IsClassText(class)
        THEN [ok |-> TRUE, m |-> <<s[1], s[4], class>>]
        ELSE [ok |-> FALSE, m |-> <<>>]

\* raidMemberPatterns[3]: ^\s*\[(?:Group\s+)?(\d+)\]\s*(\w+)\s+(\d+)\s+([\w ]+?)\s*$
MatchBracket(line) ==
    LET s == TrimSpace(line)
        \* position of the group number
        g == IF Len(s) >= 3 /\ s[2] = "Group" /\ IsWS(s[3]) THEN 4 ELSE 2
        \* position of the name
        a == IF Len(s) >= g + 2 /\ IsWS(s[g + 2]) THEN g + 3 ELSE g + 2
        class == SubSeq(s, a + 4, Len(s))
    IN  IF /\ Len(s) >= a + 4
           /\ s[1] = "["
           /\ IsDigits(s[g]) /\ s[g + 1] = "]"
           /\ IsWordTok(s[a]) /\ IsWS(s[a + 1])
           /\ IsDigits(s[a + 2]) /\ IsWS(s[a + 3])
           /\ IsClassText(class)
        THEN [ok |-> TRUE, m |-> <<s[g], s[a], s[a + 2], class>>]
        ELSE [ok |-> FALSE, m |-> <<>>]

\* raidMemberPatterns[4]: ^\s*(\w{2,})\s*$
MatchBare(line) ==
    LET s == TrimSpace(line)
    IN  IF Len(s) = 1 /\ IsWordTok(s[1]) /\ s[1] \notin SingleCharTokens
        THEN [ok |-> TRUE, m |-> <<s[1]>>]
        ELSE [ok |-> FALSE, m |-> <<>>]

StopWords == {"name", "player", "class", "level", "group", "raid", "members", "total"}

\* mutant: the bracket pattern is tried before the columns pattern and its
\* group and level are exchanged
parseMemberLineBracketSwapped(line) ==
    IF MatchPipe(line).ok
    THEN LET m == MatchPipe(line).m
         IN  Member(m[2], Atoi(m[3]), normalizeClass(m[4]), Atoi(m[1]))
    ELSE IF MatchBracket(line).ok
    THEN LET m == MatchBracket(line).m
         IN  Member(m[2], Atoi(m[1]), normalizeClass(m[4]), Atoi(m[3]))
    ELSE IF MatchColumns(line).ok
    THEN LET m == MatchColumns(line).m
         IN  Member(m[1], Atoi(m[2]), normalizeClass(m[3]), Atoi(m[4]))
    ELSE IF MatchParen(line).ok
    THEN LET m == MatchParen(line).m
         IN  Member(m[1], Atoi(m[2]), normalizeClass(m[3]), 0)
    ELSE IF MatchBare(line).ok
    THEN LET name == MatchBare(line).m[1]
         IN  IF ToLowerTok(name) \in StopWords THEN NoMember
             ELSE Member(name, 0, "", 0)
    ELSE NoMember

\* mutant: the bare-name pattern has no stop list
parseMemberLineNoStopList(line) ==
    IF MatchPipe(line).ok
    THEN LET m == MatchPipe(line).m
         IN  Member(m[2], Atoi(m[3]), normalizeClass(m[4]), Atoi(m[1]))
    ELSE IF MatchColumns(line).ok
    THEN LET m == MatchColumns(line).m
         IN  Member(m[1], Atoi(m[2]), normalizeClass(m[3]), Atoi(m[4]))
    ELSE IF MatchParen(line).ok
    THEN LET m == MatchParen(line).m
         IN  Member(m[1], Atoi(m[2]), normalizeClass(m[3]), 0)
    ELSE IF MatchBracket(line).ok
    THEN LET m == MatchBracket(line).m
         IN  Member(m[2], Atoi(m[3]), normalizeClass(m[4]), Atoi(m[1]))
    ELSE IF MatchBare(line).ok
    THEN Member(MatchBare(line).m[1], 0, "", 0)
    ELSE NoMember

parseMemberLine(line) ==
    IF MatchPipe(line).ok
    THEN LET m == MatchPipe(line).m
         IN  Member(m[2], Atoi(m[3]), normalizeClass(m[4]), Atoi(m[1]))
    ELSE IF MatchColumns(line).ok
    THEN LET m == MatchColumns(line).m
         IN  Member(m[1], Atoi(m[2]), normalizeClass(m[3]), Atoi(m[4]))
    ELSE IF MatchParen(line).ok
    THEN LET m == MatchParen(line).m
         IN  Member(m[1], Atoi(m[2]), normalizeClass(m[3]), 0)
    ELSE IF MatchBracket(line).ok
    THEN LET m == MatchBracket(line).m
         IN  Member(m[2], Atoi(m[3]), normalizeClass(m[4]), Atoi(m[1]))
    ELSE IF MatchBare(line).ok
    THEN LET name == MatchBare(line).m[1]
         IN  IF ToLowerTok(name) \in StopWords THEN NoMember
             ELSE Member(name, 0, "", 0)
    ELSE NoMember

\* mutant: names are compared as written
RECURSIVE ParseFromExact(_, _, _, _)
ParseFromExact(lines, i, members, seen) ==
    IF i > Len(lines) THEN members
    ELSE LET member == parseMemberLine(lines[i])
         IN  IF ~member.ok \/ member.Name \in seen
             THEN ParseFromExact(lines, i + 1, members, seen)
             ELSE ParseFromExact(lines, i + 1, Append(members, member),
                                 seen \cup {member.Name})

\* the loop of ParseRaidDump from line i on, members and seen carried along
RECURSIVE ParseFrom(_, _, _, _)
ParseFrom(lines, i, members, seen) ==
    IF i > Len(lines) THEN members
    ELSE LET member == parseMemberLine(lines[i])
         IN  IF ~member.ok \/ ToLowerTok(member.Name) \in seen
             THEN ParseFrom(lines, i + 1, members, seen)
             ELSE ParseFrom(lines, i + 1, Append(members, member),
                            seen \cup {ToLowerTok(member.Name)})

ParseRaidDump(lines) == ParseFrom(lines, 1, <<>>, {})

(***************************************************************************)
(* telnet: roster dump patterns                                            *)
(*                                                                         *)
(* The lines of the roster alphabet separate their fields by single spaces *)
(* and hold each anchor of playerEntryRegex ("[", "]", "(", ")", "zone",   *)
(* "AccID", "AccName", "LSID", "Status") once, so the greedy groups of the *)
(* pattern have one way to match.  A string is a sequence of tokens.       *)
(***************************************************************************)
\* tokens matched by [a-zA-Z]+
AlphaTokens == {"ANON", "RolePlay", "Alice", "Bob", "Cara", "Dan", "Eve",
                "Warrior", "Cleric", "Human", "qeynos", "acct", "Guild"}

RECURSIVE TokIndex(_, _, _)
\* index of the first token t of s at or after from, 0 when there is none
TokIndex(s, t, from) ==
    IF from > Len(s) THEN 0
    ELSE IF s[from] = t THEN from
    ELSE TokIndex(s, t, from + 1)

RECURSIVE HasSeqAt(_, _, _)
\* strings.Contains(s, pat) for a pattern of whole tokens
HasSeqAt(s, pat, from) ==
    IF from + Len(pat) - 1 > Len(s) THEN FALSE
    ELSE IF SubSeq(s, from, from + Len(pat) - 1) = pat THEN TRUE
    ELSE HasSeqAt(s, pat, from + 1)

Contains(s, pat) == HasSeqAt(s, pat, 1)

\* strings.Contains(msg, "Players on server:")
IsPlayersHeader(msg) == Contains(msg, <<"Players", " ", "on", " ", "server", ":">>)

\* strings.Contains(msg, "players online")
IsPlayersFooter(msg) == Contains(msg, <<"players", " ", "online">>)

\* playersOnlineRegex: the number in front of " players online", -1 when
\* the pattern has no match
PlayersOnlineMatch(msg) ==
    LET at == TokIndex(msg, "players", 1)
    IN  IF /\ at >= 3
           /\ IsDigits(msg[at - 2])
           /\ msg[at - 1] = " "
           /\ Len(msg) >= at + 2
           /\ msg[at + 1] = " "
           /\ msg[at + 2] = "online"
        THEN Atoi(msg[at - 2])
        ELSE -1

\* strconv.Atoi on a submatch: 0 when it is not a number
AtoiOrZero(f) == IF Len(f) = 1 /\ IsDigits(f[1]) THEN Atoi(f[1]) ELSE 0

NoEntry == [ok |-> FALSE]

\* " key: " follows directly at token kw and the field after it ends with
\* the space in front of token next
FieldOK(msg, kw, next) ==
    /\ kw > 0
    /\ next >= kw + 5
    /\ msg[kw + 1] = ":"
    /\ msg[kw + 2] = " "
    /\ msg[next - 1] = " "

Field(msg, kw, next) == SubSeq(msg, kw + 3, next - 2)

\* playerEntryRegex and the Character built from its submatches
MatchPlayerEntry(msg) ==
    LET lb == TokIndex(msg, "[", 1)
        rb == TokIndex(msg, "]", lb + 1)
        lp == TokIndex(msg, "(", rb + 1)
        rp == TokIndex(msg, ")", lp + 1)
        zn == TokIndex(msg, "zone", rp + 1)
        ac == TokIndex(msg, "AccID", zn + 1)
        an == TokIndex(msg, "AccName", ac + 1)
        ls == TokIndex(msg, "LSID", an + 1)
        st == TokIndex(msg, "Status", ls + 1)
        inner == SubSeq(msg, lb + 1, rb - 1)
        hasState == inner # <<>> /\ inner[1] \in AlphaTokens
        \* position of the level in inner: after "STATE " or after " " or first
        lvlAt == IF hasState THEN 3 ELSE IF inner # <<>> /\ inner[1] = " " THEN 2 ELSE 1
        \* the text in front of " [": the space is a token or the end of a run
        identity == IF msg[lb - 1] = " "
                       THEN SubSeq(msg, 1, lb - 2)
                       ELSE Append(SubSeq(msg, 1, lb - 2), " ")
        ok == /\ lb >= 2 /\ rb > 0 /\ lp > 0 /\ rp > 0 /\ zn > 0
              /\ ac > 0 /\ an > 0 /\ ls > 0 /\ st > 0
              /\ msg[lb - 1] \in SpaceTokens
              /\ Len(inner) >= lvlAt + 1
              /\ (hasState => inner[2] = " ")
              /\ IsDigits(inner[lvlAt])
              /\ inner[lvlAt + 1] = " "
              /\ lp >= rb + 4
              /\ msg[rb + 1] = " "
              /\ msg[lp - 1] = " "
              /\ \/ (zn = rp + 2 /\ msg[rp + 1] = "  ")
                 \/ (zn >= rp + 4 /\ msg[rp + 1] = " " /\ msg[zn - 1] = " ")
              /\ FieldOK(msg, zn, ac)
              /\ FieldOK(msg, ac, an)
              /\ FieldOK(msg, an, ls)
              /\ FieldOK(msg, ls, st)
              /\ Len(msg) >= st + 2
              /\ msg[st + 1] = ":"
              /\ msg[st + 2] = " "
    IN  IF ~ok THEN NoEntry
        ELSE [ok |-> TRUE,
              char |-> [IsOnline |-> TRUE,
                        Identity |-> identity,
                        State |-> IF hasState THEN <<inner[1]>> ELSE <<>>,
                        Level |-> Atoi(inner[lvlAt]),
                        Class |-> SubSeq(inner, lvlAt + 2, Len(inner)),
                        Name |-> SubSeq(msg, rb + 2, lp - 2),
                        Race |-> SubSeq(msg, lp + 1, rp - 1),
                        Zone |-> Field(msg, zn, ac),
                        AcctID |-> AtoiOrZero(Field(msg, ac, an)),
                        AcctName |-> Field(msg, an, ls),
                        LSID |-> AtoiOrZero(Field(msg, ls, st)),
                        Status |-> AtoiOrZero(SubSeq(msg, st + 3, Len(msg)))]]

(***************************************************************************)
(* State.                                                                  *)
(***************************************************************************)
VARIABLES
    \* raid.Raid
    rcfg,          \* config: IsEnabled, AutoPost, NotifyDiscord, DiscordChannelID
    collecting,    \* r.collecting
    dumpLines,     \* r.dumpLines
    dumpTimer,     \* r.dumpTimer: "nil", "armed", "fired" or "stopped"
    callbacks,     \* timer callbacks started by the runtime, not yet run
    finishes,      \* finishDump runs since the last start marker
    received,      \* lines taken for the dump since the last start marker
    lastFinish,    \* the last dump finished: path, lines taken, outcome
    lastOp,        \* what the last raid step did
    posts,         \* member lists of the postAttendance goroutines started, not yet run
    lastPost       \* the last postAttendance run: members, outcome, subscribers called

raidVars == <<rcfg, collecting, dumpLines, dumpTimer, callbacks, finishes,
              received, lastFinish, lastOp, posts, lastPost>>

(***************************************************************************)
(* raid: the collector                                                     *)
(***************************************************************************)
LStart == <<"Raid", " ", "Members", ":">>
LEnd == <<"2", " ", "total", " ", "raid", " ", "members">>
LPipe == <<"1", " ", "|", " ", "A", " ", "|", " ", "60", " ", "|", " ", "Warrior">>
LNoise == <<" ", "Total">>
LBlank == <<" ">>

\* lines the telnet adapter hands to ProcessTelnetLine
TelnetLines == {LStart, LEnd, LPipe, LNoise, LBlank}

NoPost == [members |-> <<>>, outcome |-> "none", notified |-> <<>>]

RaidConfigs ==
    [IsEnabled : BOOLEAN, AutoPost : BOOLEAN,
     NotifyDiscord : BOOLEAN, DiscordChannelID : {"", "chan"}]

NoFinish == [via |-> "none", lines |-> <<>>, members |-> <<>>, posted |-> FALSE]

RaidInit ==
    /\ rcfg \in RaidConfigs
    /\ collecting = FALSE
    /\ dumpLines = <<>>
    /\ dumpTimer = "nil"
    /\ callbacks = 0
    /\ finishes = 0
    /\ received = <<>>
    /\ lastFinish = NoFinish
    /\ lastOp = "none"
    /\ posts = {}
    /\ lastPost = NoPost

\* Timer.Stop: an armed timer never fires; a fired or stopped one is unchanged
TimerStop(t) == IF t = "armed" THEN "stopped" ELSE t

\* finishDump, reached from the end marker (via = "marker") or from the
\* timer callback (via = "timer")
finishDump(via) ==
    LET lines == dumpLines
        members == IF Len(lines) = 0 THEN <<>> ELSE ParseRaidDump(lines)
    IN  /\ collecting' = FALSE
        /\ dumpLines' = <<>>
        /\ finishes' = finishes + 1
        /\ lastFinish' = [via |-> via, lines |-> received, members |-> members,
                          posted |-> (Len(members) > 0 /\ rcfg.AutoPost)]
        /\ posts' = IF lastFinish'.posted
                       THEN posts \cup {lastFinish'.members}
                       ELSE posts
        /\ UNCHANGED lastPost

RaidIgnore ==
    /\ lastOp' = "ignored"
    /\ UNCHANGED <<rcfg, collecting, dumpLines, dumpTimer, callbacks, finishes,
                   received, lastFinish, posts, lastPost>>

\* mutant: the start marker arms no timer
StartDumpNoTimer ==
    /\ collecting' = TRUE
    /\ dumpLines' = <<>>
    /\ dumpTimer' = TimerStop(dumpTimer)
    /\ finishes' = 0
    /\ received' = <<>>
    /\ lastOp' = "start"
    /\ UNCHANGED <<rcfg, callbacks, lastFinish, posts, lastPost>>

\* a start marker while idle: the old timer is stopped and a new one armed
StartDump ==
    /\ collecting' = TRUE
    /\ dumpLines' = <<>>
    /\ dumpTimer' = "armed"
    /\ finishes' = 0
    /\ received' = <<>>
    /\ lastOp' = "start"
    /\ UNCHANGED <<rcfg, callbacks, lastFinish, posts, lastPost>>

\* mutant: the line is stored as received, not trimmed
ProcessTelnetLineVerbatim(line) ==
    LET trimmed == TrimSpace(line)
    IN  IF ~rcfg.IsEnabled \/ trimmed = <<>>
        THEN RaidIgnore
        ELSE IF ~collecting
        THEN IF MatchesStart(trimmed) THEN StartDump ELSE RaidIgnore
        ELSE IF MatchesEnd(trimmed)
        THEN /\ dumpTimer' = TimerStop(dumpTimer)
             /\ finishDump("marker")
             /\ lastOp' = "marker"
             /\ UNCHANGED <<rcfg, callbacks, received>>
        ELSE /\ Len(dumpLines) < MaxDumpLines
             /\ dumpLines' = Append(dumpLines, line)
             /\ received' = Append(received, line)
             /\ lastOp' = "append"
             /\ UNCHANGED <<rcfg, collecting, dumpTimer, callbacks, finishes, lastFinish,
                            posts, lastPost>>

ProcessTelnetLine(line) ==
    LET trimmed == TrimSpace(line)
    IN  IF ~rcfg.IsEnabled \/ trimmed = <<>>
        THEN RaidIgnore
        ELSE IF ~collecting
        THEN IF MatchesStart(trimmed) THEN StartDump ELSE RaidIgnore
        ELSE IF MatchesEnd(trimmed)
        THEN /\ dumpTimer' = TimerStop(dumpTimer)
             /\ finishDump("marker")
             /\ lastOp' = "marker"
             /\ UNCHANGED <<rcfg, callbacks, received>>
        ELSE /\ Len(dumpLines) < MaxDumpLines
             /\ dumpLines' = Append(dumpLines, trimmed)
             /\ received' = Append(received, trimmed)
             /\ lastOp' = "append"
             /\ UNCHANGED <<rcfg, collecting, dumpTimer, callbacks, finishes, lastFinish,
                            posts, lastPost>>

\* the runtime fires the armed timer after 10 s and starts its callback
TimerExpire ==
    /\ dumpTimer = "armed"
    /\ callbacks < MaxCallbacks
    /\ dumpTimer' = "fired"
    /\ callbacks' = callbacks + 1
    /\ lastOp' = "expire"
    /\ UNCHANGED <<rcfg, collecting, dumpLines, finishes, received, lastFinish,
                   posts, lastPost>>

\* mutant: the callback finishes without looking at r.collecting
TimerCallbackUnguarded ==
    /\ callbacks > 0
    /\ callbacks' = callbacks - 1
    /\ finishDump("timer")
    /\ lastOp' = "timeout"
    /\ UNCHANGED <<rcfg, dumpTimer, received>>

\* mutant: on timeout the buffer is dropped, not parsed
TimerCallbackDiscards ==
    /\ callbacks > 0
    /\ callbacks' = callbacks - 1
    /\ IF collecting
          THEN /\ collecting' = FALSE
               /\ dumpLines' = <<>>
               /\ finishes' = finishes + 1
               /\ lastFinish' = [via |-> "timer", lines |-> received,
                                 members |-> <<>>, posted |-> FALSE]
               /\ lastOp' = "timeout"
               /\ UNCHANGED <<posts, lastPost>>
          ELSE /\ lastOp' = "late"
               /\ UNCHANGED <<collecting, dumpLines, finishes, lastFinish, posts, lastPost>>
    /\ UNCHANGED <<rcfg, dumpTimer, received>>

\* the function given to time.AfterFunc, run once it holds r.mu
TimerCallback ==
    /\ callbacks > 0
    /\ callbacks' = callbacks - 1
    /\ IF collecting
          THEN /\ finishDump("timer")
               /\ lastOp' = "timeout"
          ELSE /\ lastOp' = "late"
               /\ UNCHANGED <<collecting, dumpLines, finishes, lastFinish, posts, lastPost>>
    /\ UNCHANGED <<rcfg, dumpTimer, received>>


\* the subscriber calls of sendDiscordNotification, in order; a call that
\* fails is logged and the loop goes on
RaidSubscriberCalls == [k \in 1..NumSubscribers |-> k]

PostOutcomes == {"error", "2xx", "status"}

\* the goroutine started by finishDump: the request fails ("error"), or is
\* answered with a 2xx status or with another status
postAttendance(members, outcome) ==
    /\ members \in posts
    /\ posts' = posts \ {members}
    /\ lastPost' = [members |-> members, outcome |-> outcome,
                    notified |-> IF /\ outcome = "2xx"
                                    /\ rcfg.NotifyDiscord
                                    /\ rcfg.DiscordChannelID # ""
                                 THEN RaidSubscriberCalls
                                 ELSE <<>>]
    /\ lastOp' = "post"
    /\ UNCHANGED <<rcfg, collecting, dumpLines, dumpTimer, callbacks, finishes,
                   received, lastFinish>>

(***************************************************************************)
(* raid: the parser functions, called on their own                         *)
(***************************************************************************)
MaxParseLines == 2

LPipeB == <<"2", " ", "|", " ", "B", " ", "|", " ", "55", " ", "|", " ", "Cleric">>
LPipeDup == <<"1", " ", "|", " ", "a", " ", "|", " ", "55", " ", "|", " ", "Cleric">>
LPipeSK == <<"2", "|", "Bob", "|", "60", "|", "Shadow", " ", "Knight", " ">>
LPipeShort == <<"2", " ", "|", " ", "Bob", " ", "|", " ", "55", " ", "|", " ", "A">>
LColumns == <<"Bob", "  ", "60", "  ", "Warrior", "  ", "1">>
LParen == <<"bob", " ", "(", "60", " ", "Warrior", ")">>
LBracket == <<"[", "Group", " ", "2", "]", " ", "Bob", " ", "55", " ", "Cleric">>
LBare == <<"Bob">>
LBareStop == <<"Total">>
LBareHeader == <<"Name">>
LBareShort == <<"A">>

\* lines of a raid dump, as r.dumpLines can hold them
ParseLines ==
    {LStart, LEnd, LPipe, LPipeB, LPipeDup, LPipeSK, LPipeShort, LColumns,
     LParen, LBracket, LBare, LBareStop, LBareHeader, LBareShort}

\* the dump of TestParseRaidDump's style with a header and a footer
ExampleDump == <<LStart, LPipe, LPipeB, LEnd>>

RECURSIVE DumpsUpTo(_)
DumpsUpTo(n) ==
    IF n = 0 THEN {<<>>}
    ELSE DumpsUpTo(n - 1) \cup
         {Append(d, l) : d \in {e \in DumpsUpTo(n - 1) : Len(e) = n - 1}, l \in ParseLines}

ParseDumps == DumpsUpTo(MaxParseLines) \cup {ExampleDump}

\* class texts given to normalizeClass
ClassInputs ==
    {<<>>, <<" ">>, <<"Warrior">>, <<"shadow", " ", "knight">>, <<"ShadowKnight">>,
     <<"Shadow", " ", "Knight">>, <<"Shadow", "  ", "Knight">>, <<"Cleric">>,
     <<"WIZARD">>, <<" ", "WIZARD", "\t">>, <<"Unknown", " ", "Class">>,
     <<"Bob">>, <<"60">>}

VARIABLES
    parseCall,     \* the function called: "none", "dump", "line" or "class"
    parseArg,      \* its argument: the lines of a dump, or <<the line>>, or <<the class text>>
    parseDone,     \* the call has returned
    outMembers,    \* result of ParseRaidDump
    outMember,     \* result of parseMemberLine (ok is its second result)
    outClass       \* result of normalizeClass

parseVars == <<parseCall, parseArg, parseDone, outMembers, outMember, outClass>>

NoResult ==
    /\ parseDone = FALSE
    /\ outMembers = <<>>
    /\ outMember = NoMember
    /\ outClass = ""

\* no parser call is under way
ParseQuiet == parseCall = "none" /\ parseArg = <<>> /\ NoResult

\* a call with any argument of the bounded sets is about to run
ParseInit ==
    /\ \/ parseCall = "dump" /\ parseArg \in ParseDumps
       \/ parseCall = "line" /\ parseArg \in {<<l>> : l \in ParseLines}
       \/ parseCall = "class" /\ parseArg \in {<<c>> : c \in ClassInputs}
    /\ NoResult

ParseRaidDumpCall ==
    /\ parseCall = "dump"
    /\ ~parseDone
    /\ outMembers' = ParseRaidDump(parseArg)
    /\ parseDone' = TRUE
    /\ UNCHANGED <<parseCall, parseArg, outMember, outClass>>

parseMemberLineCall ==
    /\ parseCall = "line"
    /\ ~parseDone
    /\ outMember' = parseMemberLine(parseArg[1])
    /\ parseDone' = TRUE
    /\ UNCHANGED <<parseCall, parseArg, outMembers, outClass>>

normalizeClassCall ==
    /\ parseCall = "class"
    /\ ~parseDone
    /\ outClass' = normalizeClass(parseArg[1])
    /\ parseDone' = TRUE
    /\ UNCHANGED <<parseCall, parseArg, outMembers, outMember>>

(***************************************************************************)
(* telnet: lines of a roster dump                                          *)
(***************************************************************************)
PlayerName(i) ==
    CASE i = 1 -> "Alice"
      [] i = 2 -> "Bob"
      [] i = 3 -> "Cara"
      [] i = 4 -> "Dan"
      [] OTHER -> "Eve"

\* one "who" line of the world server for player i
EntryLine(i, state) ==
    <<" ", "[">> \o (IF state = "" THEN <<>> ELSE <<state, " ">>)
    \o <<"60", " ", "Warrior", "]", " ", PlayerName(i), " ", "(", "Human", ")",
         " ", "<", "Guild", ">", " ", "zone", ":", " ", "qeynos",
         " ", "AccID", ":", " ", "1", " ", "AccName", ":", " ", "acct",
         " ", "LSID", ":", " ", "2", " ", "Status", ":", " ", "1">>

LPlayers == <<"Players", " ", "on", " ", "server", ":">>
LFooter == <<"2", " ", "players", " ", "online">>
LChat == <<"Bob", " ", "says", " ", "ooc">>

PlainEntries == {EntryLine(i, "") : i \in 1..MaxPlayers}
EntryLines == PlainEntries \cup {EntryLine(1, "ANON")}

\* lines the telnet adapter reads from the world server
RosterLines == {LPlayers, LFooter, LChat} \cup PlainEntries

\* the map parsePlayerEntries builds from the entry lines L
SnapshotOf(L) ==
    [n \in {MatchPlayerEntry(l).char.Name : l \in L} |->
        MatchPlayerEntry(CHOOSE l \in L : MatchPlayerEntry(l).char.Name = n).char]

\* maps a roster dump can hand to SetCharacters: one entry per name
Snapshots ==
    {SnapshotOf(L) : L \in {K \in SUBSET EntryLines :
        \A k1, k2 \in K :
            MatchPlayerEntry(k1).char.Name = MatchPlayerEntry(k2).char.Name => k1 = k2}}

EmptyRoster == SnapshotOf({})

(***************************************************************************)
(* characterdb: the presence store                                         *)
(***************************************************************************)
VARIABLES
    characters,      \* characterdb.characters
    onlineCount,     \* characterdb.onlineCount
    setRet,          \* what the last SetCharacters returned: changes, err
    prevCharacters,  \* characters before the last SetCharacters
    prevCount,       \* onlineCount before the last SetCharacters
    lastReq,         \* argument of the last SetCharacters
    dbRepeat,        \* the last two characterdb calls were SetCharacters
                     \* with the same argument
    dbOp             \* the last characterdb call: "none", "set" or "count"

presVars == <<characters, onlineCount, setRet, prevCharacters, prevCount,
              lastReq, dbRepeat, dbOp>>

PresenceInit ==
    /\ characters = EmptyRoster
    /\ onlineCount = 0
    /\ setRet = [changes |-> <<>>, err |-> "nil"]
    /\ prevCharacters = EmptyRoster
    /\ prevCount = 0
    /\ lastReq = EmptyRoster
    /\ dbRepeat = FALSE
    /\ dbOp = "none"

\* the orders in which a range over a map with key set S can visit its keys
Orders(S) ==
    {o \in [1..Cardinality(S) -> S] :
        \A i, j \in 1..Cardinality(S) : o[i] = o[j] => i = j}

PlayerChange(char, online) ==
    [Name |-> char.Name, Class |-> char.Class, Level |-> char.Level,
     Zone |-> char.Zone, Online |-> online]

\* the changes appended by the two loops, visiting the keys in the orders
\* arrivals and departures
ChangesOf(req, arrivals, departures) ==
    [i \in 1..Len(arrivals) |-> PlayerChange(req[arrivals[i]], TRUE)]
    \o [i \in 1..Len(departures) |-> PlayerChange(characters[departures[i]], FALSE)]

\* mutant: the loop over the departed players is missing
SetCharactersNoDepartures(req) ==
    \E arrivals \in Orders(DOMAIN req \ DOMAIN characters) :
        /\ setRet' = [changes |-> ChangesOf(req, arrivals, <<>>), err |-> "nil"]
        /\ characters' = req
        /\ onlineCount' = Cardinality(DOMAIN req)
        /\ prevCharacters' = characters
        /\ prevCount' = onlineCount
        /\ lastReq' = req
        /\ dbRepeat' = (dbOp = "set" /\ lastReq = req)
        /\ dbOp' = "set"

\* mutant: the argument is not stored as the current map
SetCharactersNoStore(req) ==
    \E arrivals \in Orders(DOMAIN req \ DOMAIN characters),
       departures \in Orders(DOMAIN characters \ DOMAIN req) :
        /\ setRet' = [changes |-> ChangesOf(req, arrivals, departures), err |-> "nil"]
        /\ characters' = characters
        /\ onlineCount' = Cardinality(DOMAIN characters)
        /\ prevCharacters' = characters
        /\ prevCount' = onlineCount
        /\ lastReq' = req
        /\ dbRepeat' = (dbOp = "set" /\ lastReq = req)
        /\ dbOp' = "set"

SetCharacters(req) ==
    \E arrivals \in Orders(DOMAIN req \ DOMAIN characters),
       departures \in Orders(DOMAIN characters \ DOMAIN req) :
        /\ setRet' = [changes |-> ChangesOf(req, arrivals, departures), err |-> "nil"]
        /\ characters' = req
        /\ onlineCount' = Cardinality(DOMAIN req)
        /\ prevCharacters' = characters
        /\ prevCount' = onlineCount
        /\ lastReq' = req
        /\ dbRepeat' = (dbOp = "set" /\ lastReq = req)
        /\ dbOp' = "set"

\* values the telnet adapter can pass: the numbers it can read
OnlineCounts == {Atoi(t) : t \in DigitTokens}

SetCharactersOnlineCount(value) ==
    /\ onlineCount' = value
    /\ dbOp' = "count"
    /\ dbRepeat' = FALSE
    /\ UNCHANGED <<characters, setRet, prevCharacters, prevCount, lastReq>>

CharactersOnlineCount == onlineCount

(***************************************************************************)
(* characterdb: the calls under mu, statement by statement                 *)
(***************************************************************************)
NumReaders == 2

Readers == 1..NumReaders

VARIABLES
    wPc,       \* the goroutine inside SetCharacters: "idle", "locked", "stored"
    wReq,      \* its argument req
    rPc,       \* per reader: "idle", "online" (inside CharactersOnline) or
               \* "count" (inside CharactersOnlineCount)
    rMap,      \* per reader: the map its range statement iterates
    rSeen      \* per reader: the names its range has visited

lockVars == <<wPc, wReq, rPc, rMap, rSeen>>

LockInit ==
    /\ wPc = "idle"
    /\ wReq = EmptyRoster
    /\ rPc = [r \in Readers |-> "idle"]
    /\ rMap = [r \in Readers |-> EmptyRoster]
    /\ rSeen = [r \in Readers |-> {}]

\* the readers that hold mu.RLock
MuReaders == {r \in Readers : rPc[r] # "idle"}

\* the maps the concurrent callers pass: the first k players, k = 0, 1, ...
LockSnapshots ==
    {SnapshotOf({EntryLine(i, "") : i \in 1..k}) : k \in 0..MaxPlayers}

\* mutant: SetCharacters does not wait for the readers
SetCharactersLockFree(req) ==
    /\ wPc = "idle"
    /\ wReq' = req
    /\ wPc' = "locked"
    /\ UNCHANGED <<rPc, rMap, rSeen>>
    /\ UNCHANGED presVars

\* SetCharacters: mu.Lock()
SetCharactersLock(req) ==
    /\ wPc = "idle"
    /\ MuReaders = {}
    /\ wReq' = req
    /\ wPc' = "locked"
    /\ UNCHANGED <<rPc, rMap, rSeen>>
    /\ UNCHANGED presVars

\* SetCharacters: the two loops, which only read, then characters = req
SetCharactersStore ==
    /\ wPc = "locked"
    /\ \E arrivals \in Orders(DOMAIN wReq \ DOMAIN characters),
          departures \in Orders(DOMAIN characters \ DOMAIN wReq) :
            setRet' = [changes |-> ChangesOf(wReq, arrivals, departures), err |-> "nil"]
    /\ characters' = wReq
    /\ prevCharacters' = characters
    /\ wPc' = "stored"
    /\ UNCHANGED <<wReq, rPc, rMap, rSeen>>
    /\ UNCHANGED <<onlineCount, prevCount, lastReq, dbRepeat, dbOp>>

\* SetCharacters: onlineCount = len(characters), return, mu.Unlock()
SetCharactersUnlock ==
    /\ wPc = "stored"
    /\ onlineCount' = Cardinality(DOMAIN characters)
    /\ prevCount' = onlineCount
    /\ lastReq' = wReq
    /\ dbRepeat' = (dbOp = "set" /\ lastReq = wReq)
    /\ dbOp' = "set"
    /\ wPc' = "idle"
    /\ UNCHANGED <<wReq, rPc, rMap, rSeen>>
    /\ UNCHANGED <<characters, prevCharacters, setRet>>

\* a count read from a line that no roster of the model matches
StrayCounts == {Atoi("55")}

\* SetCharactersOnlineCount: one assignment between mu.Lock and mu.Unlock
SetCharactersOnlineCountLocked(value) ==
    /\ wPc = "idle"
    /\ MuReaders = {}
    /\ SetCharactersOnlineCount(value)
    /\ UNCHANGED lockVars

\* CharactersOnline: mu.RLock(); the range statement evaluates characters
CharactersOnlineRLock(r) ==
    /\ rPc[r] = "idle"
    /\ wPc = "idle"
    /\ rPc' = [rPc EXCEPT ![r] = "online"]
    /\ rMap' = [rMap EXCEPT ![r] = characters]
    /\ rSeen' = [rSeen EXCEPT ![r] = {}]
    /\ UNCHANGED <<wPc, wReq>>
    /\ UNCHANGED presVars

\* CharactersOnline: one iteration of the range
CharactersOnlineNext(r) ==
    /\ rPc[r] = "online"
    /\ \E n \in DOMAIN rMap[r] \ rSeen[r] :
          rSeen' = [rSeen EXCEPT ![r] = rSeen[r] \cup {n}]
    /\ UNCHANGED <<wPc, wReq, rPc, rMap>>
    /\ UNCHANGED presVars

\* CharactersOnline: the range is over; return, mu.RUnlock()
CharactersOnlineRUnlock(r) ==
    /\ rPc[r] = "online"
    /\ rSeen[r] = DOMAIN rMap[r]
    /\ rPc' = [rPc EXCEPT ![r] = "idle"]
    /\ UNCHANGED <<wPc, wReq, rMap, rSeen>>
    /\ UNCHANGED presVars

\* CharactersOnlineCount: mu.RLock()
CharactersOnlineCountRLock(r) ==
    /\ rPc[r] = "idle"
    /\ wPc = "idle"
    /\ rPc' = [rPc EXCEPT ![r] = "count"]
    /\ UNCHANGED <<wPc, wReq, rMap, rSeen>>
    /\ UNCHANGED presVars

\* CharactersOnlineCount: return onlineCount, mu.RUnlock()
CharactersOnlineCountRUnlock(r) ==
    /\ rPc[r] = "count"
    /\ rPc' = [rPc EXCEPT ![r] = "idle"]
    /\ UNCHANGED <<wPc, wReq, rMap, rSeen>>
    /\ UNCHANGED presVars

(***************************************************************************)
(* characterdb: CharactersOnline                                           *)
(***************************************************************************)
\* the number of listed names CharactersOnline tests for
ListLimit == 20

MaxVisible == 21
MaxElsewhere == 1
MaxHidden == 1

\* names of which none is part of another
WhoName(i) == "P" \o ToString(100 + i)

\* the "who" line of a character with the given name, state and zone
WhoLine(name, state, zone) ==
    <<" ", "[">> \o (IF state = "" THEN <<>> ELSE <<state, " ">>)
    \o <<"60", " ", "Warrior", "]", " ", name, " ", "(", "Human", ")",
         " ", "<", "Guild", ">", " ", "zone", ":", " ", zone,
         " ", "AccID", ":", " ", "1", " ", "AccName", ":", " ", "acct",
         " ", "LSID", ":", " ", "2", " ", "Status", ":", " ", "1">>

\* the map of a dump with v plain characters in qeynos, e plain ones in
\* freeport, a anonymous and rp role-playing ones, named in this order
WhoRoster(v, e, a, rp) ==
    SnapshotOf({WhoLine(WhoName(i),
                        IF i <= v + e THEN ""
                        ELSE IF i <= v + e + a THEN "ANON" ELSE "RolePlay",
                        IF i > v /\ i <= v + e THEN "freeport" ELSE "qeynos") :
                i \in 1..(v + e + a + rp)})

WhoRosters ==
    {WhoRoster(v, e, a, rp) : v \in 0..MaxVisible, e \in 0..MaxElsewhere,
                              a \in 0..MaxHidden, rp \in 0..MaxHidden}

\* filters of a who request: none, a zone, a name
WhoFilters == {<<>>, <<"qeynos">>, <<WhoName(1)>>}

VARIABLES
    whoFilter,  \* the argument of the last CharactersOnline call
    whoOut      \* the string it returned, <<>> before the first call

whoVars == <<whoFilter, whoOut>>

WhoInit ==
    /\ whoFilter = <<>>
    /\ whoOut = <<>>

\* orders in which the range over characters visits the names: the names
\* in the order of their numbers from any start, forwards or backwards
WhoOrders ==
    LET n == Cardinality(DOMAIN characters)
        from(k) == [i \in 1..n |-> <<WhoName(((i + k - 1) % n) + 1)>>]
        back(k) == [i \in 1..n |-> <<WhoName(((n - i + k) % n) + 1)>>]
    IN  IF n = 0 THEN {<<>>}
        ELSE {from(k) : k \in 0..(n - 1)} \cup {back(k) : k \in 0..(n - 1)}

\* fmt.Sprintf("%s\n", user.Name) appended to content, totalCount++
WhoListed(acc, user) ==
    [acc EXCEPT !.content = acc.content \o user.Name \o <<"\n">>,
                !.totalCount = acc.totalCount + 1]

RECURSIVE CharactersOnlineRange(_, _, _, _)
\* the range over characters from position i of order
CharactersOnlineRange(order, i, filter, acc) ==
    IF i > Len(order) THEN acc
    ELSE LET user == characters[order[i]]
             at == IF acc.totalCount >= ListLimit
                      THEN [acc EXCEPT !.isTruncated = TRUE]
                      ELSE acc
             hidden == [at EXCEPT !.hiddenCount = at.hiddenCount + 1]
         IN  IF Contains(user.State, <<"ANON">>)
                THEN CharactersOnlineRange(order, i + 1, filter, hidden)
             ELSE IF Contains(user.State, <<"RolePlay">>)
                THEN CharactersOnlineRange(order, i + 1, filter, hidden)
             ELSE IF filter = <<>>
                THEN CharactersOnlineRange(order, i + 1, filter, WhoListed(at, user))
             ELSE IF ~Contains(user.Name, filter) /\ ~Contains(user.Zone, filter)
                THEN CharactersOnlineRange(order, i + 1, filter, at)
             ELSE CharactersOnlineRange(order, i + 1, filter, WhoListed(at, user))

\* CharactersOnline: the string it returns, piece by piece.  hiddenText
\* holds the verb %d and is itself an argument of Sprintf, which does not
\* format its arguments again
CharactersOnline(filter, order) ==
    LET r == CharactersOnlineRange(order, 1, filter,
                [content |-> <<>>, totalCount |-> 0, hiddenCount |-> 0,
                 isTruncated |-> FALSE])
        hiddenText == IF r.hiddenCount > 0 THEN <<"(%d hidden) ">> ELSE <<>>
        truncatedText == IF r.isTruncated THEN <<"(truncated) ">> ELSE <<>>
    IN  IF r.totalCount = 0
        THEN <<"There are ", "0", " players ">> \o hiddenText \o <<"online.">>
        ELSE IF filter = <<>>
        THEN <<"There are ", ToString(r.totalCount), " players ">> \o hiddenText
             \o <<"online">> \o truncatedText \o <<":\n">> \o r.content
        ELSE <<"There are ", ToString(r.totalCount), " players ">> \o hiddenText
             \o truncatedText \o <<"who match '">> \o filter \o <<"':\n">>
             \o r.content

\* the who request of a behaviour is answered
CharactersOnlineCall(filter) ==
    /\ whoOut = <<>>
    /\ \E order \in WhoOrders : whoOut' = CharactersOnline(filter, order)
    /\ whoFilter' = filter
    /\ UNCHANGED presVars

(***************************************************************************)
(* telnet: the roster dump parser                                          *)
(***************************************************************************)
VARIABLES
    tcfg,               \* config.PlayerNotifications: IsEnabled, ChannelID
    isPlayerDump,       \* t.isPlayerDump
    graceOver,          \* time.Now().After(t.lastPlayerDump)
    tCharacters,        \* t.characters
    isNewTelnet,        \* t.isNewTelnet
    notified,           \* subscriber calls made for the last completed dump
    dumpsSinceConnect,  \* dumps completed since the last connect: 0, 1, 2 (or more)
    telOp               \* the last telnet step: "none", "connect", "dumpEnd", "line", "clock", "count"

telVars == <<tcfg, isPlayerDump, graceOver, tCharacters, isNewTelnet,
             notified, dumpsSinceConnect, telOp>>

\* state of an adapter that has just connected
TelnetInit ==
    /\ tcfg \in [IsEnabled : BOOLEAN, ChannelID : {"", "chan"}]
    /\ isPlayerDump = FALSE
    /\ graceOver = FALSE
    /\ tCharacters = EmptyRoster
    /\ isNewTelnet = TRUE
    /\ notified = <<>>
    /\ dumpsSinceConnect = 0
    /\ telOp = "none"

\* the calls s(req) of the loops over changes and t.subscribers, in order;
\* a call that fails is logged and the loops go on
SubscriberCalls(changes) ==
    [k \in 1..(Len(changes) * NumSubscribers) |->
        [change |-> changes[((k - 1) \div NumSubscribers) + 1],
         sub |-> ((k - 1) % NumSubscribers) + 1]]

\* mutant: the first dump does not clear t.isNewTelnet
sendPlayerNotificationsKeepsNew(changes) ==
    IF ~tcfg.IsEnabled \/ tcfg.ChannelID = ""
    THEN notified' = <<>> /\ UNCHANGED isNewTelnet
    ELSE IF isNewTelnet
    THEN notified' = <<>> /\ UNCHANGED isNewTelnet
    ELSE notified' = SubscriberCalls(changes) /\ UNCHANGED isNewTelnet

sendPlayerNotifications(changes) ==
    IF ~tcfg.IsEnabled \/ tcfg.ChannelID = ""
    THEN notified' = <<>> /\ UNCHANGED isNewTelnet
    ELSE IF isNewTelnet
    THEN notified' = <<>> /\ isNewTelnet' = FALSE
    ELSE notified' = SubscriberCalls(changes) /\ UNCHANGED isNewTelnet

\* the dump is complete: the collected map replaces the stored one and
\* the changes are notified
CompleteDump ==
    /\ SetCharacters(tCharacters)
    /\ sendPlayerNotifications(setRet'.changes)
    /\ isPlayerDump' = FALSE
    /\ dumpsSinceConnect' = IF dumpsSinceConnect = 0 THEN 1 ELSE 2
    /\ telOp' = "dumpEnd"
    /\ UNCHANGED <<tcfg, graceOver, tCharacters>>

TelnetSkip ==
    /\ telOp' = "line"
    /\ UNCHANGED <<tcfg, isPlayerDump, graceOver, tCharacters, isNewTelnet,
                   notified, dumpsSinceConnect>>
    /\ UNCHANGED presVars

parsePlayerEntries(msg) ==
    IF isPlayerDump /\ graceOver
    THEN CompleteDump
    ELSE IF ~isPlayerDump /\ IsPlayersHeader(msg)
    THEN /\ isPlayerDump' = TRUE
         /\ graceOver' = FALSE
         /\ tCharacters' = EmptyRoster
         /\ telOp' = "line"
         /\ UNCHANGED <<tcfg, isNewTelnet, notified, dumpsSinceConnect>>
         /\ UNCHANGED presVars
    ELSE IF ~isPlayerDump
    THEN TelnetSkip
    ELSE IF IsPlayersFooter(msg)
    THEN CompleteDump
    ELSE IF ~MatchPlayerEntry(msg).ok
    THEN TelnetSkip
    ELSE LET char == MatchPlayerEntry(msg).char
         IN  /\ tCharacters' = [n \in DOMAIN tCharacters \cup {char.Name} |->
                                    IF n = char.Name THEN char ELSE tCharacters[n]]
             /\ telOp' = "line"
             /\ UNCHANGED <<tcfg, isPlayerDump, graceOver, isNewTelnet,
                            notified, dumpsSinceConnect>>
             /\ UNCHANGED presVars

parsePlayersOnline(msg) ==
    /\ PlayersOnlineMatch(msg) >= 0
    /\ SetCharactersOnlineCount(PlayersOnlineMatch(msg))
    /\ telOp' = "count"
    /\ UNCHANGED <<tcfg, isPlayerDump, graceOver, tCharacters, isNewTelnet,
                   notified, dumpsSinceConnect>>

\* one second passes after the header of a dump
GraceElapse ==
    /\ isPlayerDump
    /\ ~graceOver
    /\ graceOver' = TRUE
    /\ telOp' = "clock"
    /\ UNCHANGED <<tcfg, isPlayerDump, tCharacters, isNewTelnet, notified,
                   dumpsSinceConnect>>
    /\ UNCHANGED presVars

\* the adapter connects again: the next dump is the first of the connection
TelnetConnect ==
    /\ isNewTelnet' = TRUE
    /\ dumpsSinceConnect' = 0
    /\ telOp' = "connect"
    /\ UNCHANGED <<tcfg, isPlayerDump, graceOver, tCharacters, notified>>
    /\ UNCHANGED presVars

(***************************************************************************)
(* client: configuration                                                   *)
(***************************************************************************)
Adapters == {"discord", "telnet", "sqlreport", "eqlog", "peqeditorsql", "nats"}

\* values of keep_alive_retry in the configuration file
RetryStrings == {"0s", "1s", "2s", "5s", "10s", "30s", "soon"}

VARIABLES
    config    \* c.config: IsKeepAliveEnabled, KeepAliveRetry, Enabled per adapter

Configs ==
    [IsKeepAliveEnabled : BOOLEAN, KeepAliveRetry : RetryStrings,
     Enabled : [Adapters -> BOOLEAN]]

(***************************************************************************)
(* client: the dispatch hub                                                *)
(***************************************************************************)
VARIABLES
    lastEvent,   \* the event of the last onMessage call
    sends,       \* the Send calls of the last onMessage call, in order
    endpoints,   \* the endpoints named by its log line
    hubLog       \* its log line: "none", "sent", "dropped" or "unknown"

hubVars == <<lastEvent, sends, endpoints, hubLog>>

\* the source names the adapters pass, and one no adapter passes
Sources == {"peqeditorsql", "telnet", "nats", "discord", "eqlog", "webhook"}

\* channel numbers of the telnet channel commands
ChannelIDs == {259, 260, 261}

Events == [source : Sources, channelID : ChannelIDs]

NoEvent == [source |-> "none", channelID |-> 0]

HubInit ==
    /\ lastEvent = NoEvent
    /\ sends = <<>>
    /\ endpoints = <<>>
    /\ hubLog = "none"

\* one Send call on adapter to; the endpoint is named when it succeeds
SendTo(to, fails) == <<[to |-> to, err |-> fails]>>

Named(to, fails) == IF fails THEN <<>> ELSE <<to>>

\* mutant: the event goes to discord whether or not discord is enabled
ToDiscordUnchecked(fails) ==
    /\ sends' = SendTo("discord", fails["discord"])
    /\ endpoints' = Named("discord", fails["discord"])
    /\ hubLog' = "sent"

\* mutant: a failed send to discord is tried again
ToDiscordRetry(fails) ==
    IF ~config.Enabled["discord"]
    THEN sends' = <<>> /\ endpoints' = <<>> /\ hubLog' = "dropped"
    ELSE /\ sends' = IF fails["discord"]
                        THEN SendTo("discord", TRUE) \o SendTo("discord", FALSE)
                        ELSE SendTo("discord", FALSE)
         /\ endpoints' = <<"discord">>
         /\ hubLog' = "sent"

\* the cases "peqeditorsql", "telnet", "nats" and "eqlog"
ToDiscord(fails) ==
    IF ~config.Enabled["discord"]
    THEN sends' = <<>> /\ endpoints' = <<>> /\ hubLog' = "dropped"
    ELSE /\ sends' = SendTo("discord", fails["discord"])
         /\ endpoints' = Named("discord", fails["discord"])
         /\ hubLog' = "sent"

\* mutant: a failed telnet send ends the handler
FromDiscordAborts(fails) ==
    LET toTelnet == config.Enabled["telnet"]
        toNats == config.Enabled["nats"] /\ ~(toTelnet /\ fails["telnet"])
    IN  /\ sends' = (IF toTelnet THEN SendTo("telnet", fails["telnet"]) ELSE <<>>)
                    \o (IF toNats THEN SendTo("nats", fails["nats"]) ELSE <<>>)
        /\ endpoints' = (IF toTelnet THEN Named("telnet", fails["telnet"]) ELSE <<>>)
                        \o (IF toNats THEN Named("nats", fails["nats"]) ELSE <<>>)
        /\ hubLog' = IF toTelnet \/ toNats THEN "sent" ELSE "dropped"

\* the case "discord"
FromDiscord(fails) ==
    LET toTelnet == config.Enabled["telnet"]
        toNats == config.Enabled["nats"]
        isSent == toTelnet \/ toNats
    IN  /\ sends' = (IF toTelnet THEN SendTo("telnet", fails["telnet"]) ELSE <<>>)
                    \o (IF toNats THEN SendTo("nats", fails["nats"]) ELSE <<>>)
        /\ endpoints' = (IF toTelnet THEN Named("telnet", fails["telnet"]) ELSE <<>>)
                        \o (IF toNats THEN Named("nats", fails["nats"]) ELSE <<>>)
        /\ hubLog' = IF isSent THEN "sent" ELSE "dropped"

\* fails[a]: a Send on adapter a returns an error during this call
onMessage(ev, fails) ==
    /\ lastEvent' = ev
    /\ CASE ev.source \in {"peqeditorsql", "telnet", "nats", "eqlog"} -> ToDiscord(fails)
         [] ev.source = "discord" -> FromDiscord(fails)
         [] OTHER -> sends' = <<>> /\ endpoints' = <<>> /\ hubLog' = "unknown"
    /\ UNCHANGED config

\* the adapters onMessage can send to
Destinations == {"discord", "telnet", "nats"}

(***************************************************************************)
(* client: the keep-alive supervisor                                       *)
(***************************************************************************)
\* program constants, in seconds
KeepAliveFloor == 10
VerifyThreshold == 2
NewThreshold == 2
NewDefault == 10

VARIABLES
    phase,      \* "start", "created", "running", "looping", "exited", "failed"
    retry,      \* c.config.KeepAliveRetry.Duration in seconds
    connected,  \* isConnected of every adapter
    slept,      \* seconds of the last time.Sleep of the loop, -1 before it
    loopPc,     \* where the reconnect loop stands: "check" (at its select) or "sleep"
    tick,       \* Connect calls of the last round per adapter: "none", "ok", "failed"
    cancelled,  \* c.cancel() was called
    ctxDone,    \* the context handed to Client.Connect is done
    supOp       \* the last step: "none", "new", "connect", "start", "again",
                \* "tick", "exit", "drop", "disconnect", "cancel", "check", "poll"

supVars == <<phase, retry, connected, slept, loopPc, tick, cancelled, ctxDone, supOp>>

VARIABLES
    statusPc,   \* the status goroutine: "off", "check" (at its select), "poll", "exited"
    lastPoll    \* telnet.Who and discord.StatusUpdate of its last round

statVars == <<statusPc, lastPoll>>

NoTick == [a \in Adapters |-> "none"]

NoPoll == [who |-> "none", update |-> "none"]

SupervisorInit ==
    /\ phase = "start"
    /\ retry = 0
    /\ connected = [a \in Adapters |-> FALSE]
    /\ slept = -1
    /\ loopPc = "check"
    /\ tick = NoTick
    /\ cancelled = FALSE
    /\ ctxDone = FALSE
    /\ supOp = "none"
    /\ statusPc = "off"
    /\ lastPoll = NoPoll

\* time.ParseDuration, in seconds
ParseDuration(s) ==
    CASE s = "0s" -> [ok |-> TRUE, secs |-> 0]
      [] s = "1s" -> [ok |-> TRUE, secs |-> 1]
      [] s = "2s" -> [ok |-> TRUE, secs |-> 2]
      [] s = "5s" -> [ok |-> TRUE, secs |-> 5]
      [] s = "10s" -> [ok |-> TRUE, secs |-> 10]
      [] s = "30s" -> [ok |-> TRUE, secs |-> 30]
      [] OTHER -> [ok |-> FALSE, secs |-> 0]

\* Config.KeepAliveRetryDuration
KeepAliveRetryDuration(s) ==
    IF ~ParseDuration(s).ok THEN KeepAliveFloor
    ELSE IF ParseDuration(s).secs < KeepAliveFloor THEN KeepAliveFloor
    ELSE ParseDuration(s).secs

\* Config.Verify: the keep_alive_retry it leaves in the configuration
Verify(c) ==
    IF c.IsKeepAliveEnabled /\ KeepAliveRetryDuration(c.KeepAliveRetry) < VerifyThreshold
    THEN [c EXCEPT !.KeepAliveRetry = "30s"]
    ELSE c

\* client.New with a keep_alive_retry that parses
ClientNew ==
    /\ phase = "start"
    /\ ParseDuration(Verify(config).KeepAliveRetry).ok
    /\ config' = Verify(config)
    /\ retry' = LET secs == ParseDuration(Verify(config).KeepAliveRetry).secs
                IN  IF config.IsKeepAliveEnabled /\ secs < NewThreshold
                    THEN NewDefault
                    ELSE secs
    /\ phase' = "created"
    /\ supOp' = "new"
    /\ UNCHANGED <<connected, slept, loopPc, tick, cancelled, ctxDone, statVars>>

\* client.New with a keep_alive_retry that does not parse: loading the
\* configuration fails, or the field is left at zero
ClientNewUnparsed ==
    /\ phase = "start"
    /\ ~ParseDuration(Verify(config).KeepAliveRetry).ok
    /\ config' = Verify(config)
    /\ \/ /\ phase' = "failed"
          /\ UNCHANGED retry
       \/ /\ phase' = "created"
          /\ retry' = IF config.IsKeepAliveEnabled THEN NewDefault ELSE 0
    /\ supOp' = "new"
    /\ UNCHANGED <<connected, slept, loopPc, tick, cancelled, ctxDone, statVars>>

\* the order of the Connect calls of Client.Connect
ConnectOrder == <<"discord", "telnet", "sqlreport", "eqlog", "peqeditorsql", "nats">>

\* Connect of one adapter: a disabled adapter returns nil and stays
\* unconnected; fails says whether an enabled one returns an error
ConnectsNow(a, fails) == config.Enabled[a] /\ ~fails[a]

\* position of the first Connect of Client.Connect that returns an error,
\* 0 when none does
RECURSIVE FirstFailure(_, _)
FirstFailure(fails, i) ==
    IF i > Len(ConnectOrder) THEN 0
    ELSE IF config.Enabled[ConnectOrder[i]] /\ fails[ConnectOrder[i]] THEN i
    ELSE FirstFailure(fails, i + 1)

\* Client.Connect: without keep-alive the first error is returned and the
\* later adapters and the loop are not started; with it every adapter is
\* tried and the loop is started
ClientConnect(fails) ==
    LET stop == IF config.IsKeepAliveEnabled THEN 0 ELSE FirstFailure(fails, 1)
        tried == IF stop = 0 THEN Adapters
                 ELSE {ConnectOrder[i] : i \in 1..stop}
    IN  /\ phase = "created"
        /\ connected' = [a \in Adapters |->
                            connected[a] \/ (a \in tried /\ ConnectsNow(a, fails))]
        /\ phase' = IF stop = 0 THEN "running" ELSE "failed"
        /\ supOp' = "connect"
        /\ UNCHANGED <<config, retry, slept, loopPc, tick, cancelled, ctxDone, statVars>>

\* mutant: the reconnect loop runs whatever the keep-alive setting
LoopStartAlways ==
    /\ phase = "running"
    /\ statusPc' = "check"
    /\ phase' = "looping"
    /\ loopPc' = "check"
    /\ supOp' = "start"
    /\ UNCHANGED <<config, retry, connected, slept, tick, cancelled, ctxDone, lastPoll>>

\* Client.loop starts: the status goroutine is started, then the loop
\* returns at once when keep-alive is off
LoopStart ==
    /\ phase = "running"
    /\ statusPc' = "check"
    /\ phase' = IF config.IsKeepAliveEnabled THEN "looping" ELSE "exited"
    /\ loopPc' = "check"
    /\ supOp' = "start"
    /\ UNCHANGED <<config, retry, connected, slept, tick, cancelled, ctxDone, lastPoll>>

\* the select of the loop finds its context alive: the loop sleeps
LoopAgain ==
    /\ phase = "looping"
    /\ loopPc = "check"
    /\ ~ctxDone
    /\ loopPc' = "sleep"
    /\ supOp' = "again"
    /\ UNCHANGED <<config, retry, connected, slept, phase, tick, cancelled, ctxDone, statVars>>

\* the select of the loop finds its context done: the loop returns
LoopExit ==
    /\ phase = "looping"
    /\ loopPc = "check"
    /\ ctxDone
    /\ phase' = "exited"
    /\ supOp' = "exit"
    /\ UNCHANGED <<config, retry, connected, slept, loopPc, tick, cancelled, ctxDone, statVars>>

\* the adapters the loop reconnects
Supervised == {"discord", "telnet", "sqlreport"}

\* what the round does for adapter a: no call, or a Connect and its result
TickOf(a, fails) ==
    IF a \in Supervised /\ config.Enabled[a] /\ ~connected[a]
    THEN IF fails[a] THEN "failed" ELSE "ok"
    ELSE "none"

\* mutant: the first Connect error of a round ends the loop
LoopTickFatal(fails) ==
    /\ phase = "looping"
    /\ loopPc = "sleep"
    /\ slept' = retry
    /\ tick' = [a \in Adapters |-> TickOf(a, fails)]
    /\ connected' = [a \in Adapters |-> connected[a] \/ TickOf(a, fails) = "ok"]
    /\ phase' = IF \E a \in Adapters : TickOf(a, fails) = "failed"
                   THEN "exited" ELSE "looping"
    /\ loopPc' = "check"
    /\ supOp' = "tick"
    /\ UNCHANGED <<config, retry, cancelled, ctxDone, statVars>>

\* one round of the loop once its sleep is over: a Connect for every
\* supervised adapter that is enabled and not connected
LoopTick(fails) ==
    /\ phase = "looping"
    /\ loopPc = "sleep"
    /\ slept' = retry
    /\ tick' = [a \in Adapters |-> TickOf(a, fails)]
    /\ connected' = [a \in Adapters |-> connected[a] \/ TickOf(a, fails) = "ok"]
    /\ loopPc' = "check"
    /\ supOp' = "tick"
    /\ UNCHANGED <<config, retry, phase, cancelled, ctxDone, statVars>>

\* a connected adapter loses its connection
AdapterDrop(a) ==
    /\ phase \in {"running", "looping", "exited"}
    /\ connected[a]
    /\ connected' = [connected EXCEPT ![a] = FALSE]
    /\ supOp' = "drop"
    /\ UNCHANGED <<config, retry, phase, slept, loopPc, tick, cancelled, ctxDone, statVars>>

\* Client.Disconnect: discord is disconnected, then c.cancel() is called
ClientDisconnect ==
    /\ phase \in {"running", "looping", "exited"}
    /\ ~cancelled
    /\ connected' = [connected EXCEPT !["discord"] = FALSE]
    /\ cancelled' = TRUE
    /\ supOp' = "disconnect"
    /\ UNCHANGED <<config, retry, phase, slept, loopPc, tick, ctxDone, statVars>>

\* the caller of Client.Connect cancels the context it passed
CallerCancel ==
    /\ phase \in {"running", "looping", "exited"}
    /\ ~ctxDone
    /\ ctxDone' = TRUE
    /\ supOp' = "cancel"
    /\ UNCHANGED <<config, retry, phase, connected, slept, loopPc, tick, cancelled, statVars>>

(***************************************************************************)
(* client: the status goroutine of Client.loop                             *)
(***************************************************************************)
\* the select of the status goroutine
StatusCheck ==
    /\ statusPc = "check"
    /\ statusPc' = IF ctxDone THEN "exited" ELSE "poll"
    /\ supOp' = "check"
    /\ UNCHANGED <<config, phase, retry, connected, slept, loopPc, tick,
                   cancelled, ctxDone, lastPoll>>

PollOf(whoFails, updateFails) ==
    IF config.Enabled["telnet"] /\ config.Enabled["discord"]
    THEN [who |-> IF whoFails THEN "failed" ELSE "ok",
          update |-> IF updateFails THEN "failed" ELSE "ok"]
    ELSE NoPoll

\* mutant: a failed Who ends the status goroutine
StatusPollFatal(whoFails, updateFails) ==
    /\ statusPc = "poll"
    /\ lastPoll' = PollOf(whoFails, updateFails)
    /\ statusPc' = IF PollOf(whoFails, updateFails).who = "failed"
                      THEN "exited" ELSE "check"
    /\ supOp' = "poll"
    /\ UNCHANGED <<config, phase, retry, connected, slept, loopPc, tick,
                   cancelled, ctxDone>>

\* the body of the status goroutine: Who and StatusUpdate when telnet and
\* discord are enabled, their errors logged, then the sleep of 60 s
StatusPoll(whoFails, updateFails) ==
    /\ statusPc = "poll"
    /\ lastPoll' = PollOf(whoFails, updateFails)
    /\ statusPc' = "check"
    /\ supOp' = "poll"
    /\ UNCHANGED <<config, phase, retry, connected, slept, loopPc, tick,
                   cancelled, ctxDone>>

(***************************************************************************)
(* config: a Route and its compiled regex and template                     *)
(***************************************************************************)
\* trigger regexes: none, two that compile, one with an unclosed group
TriggerPatterns == {"", "(\\w+) says ooc, '(.*)'", "^Hello", "("}

\* regexp.Compile succeeds
Compiles(pattern) == pattern # "("

\* message patterns: empty, two that parse, one with an unclosed action
MessagePatterns == {"", "{{.Name}} says, '{{.Message}}'", "{{.Name"}

\* template.Parse succeeds
Parses(text) == text # "{{.Name"

Routes ==
    [IsEnabled : BOOLEAN, Regex : TriggerPatterns, Custom : {"", "serverup"},
     MessagePattern : MessagePatterns]

VARIABLES
    route,                     \* the configured fields of the Route
    triggerRegex,              \* r.triggerRegex: "nil" or "compiled"
    messagePatternTemplate,    \* r.messagePatternTemplate: "nil" or "parsed"
    loadErr,                   \* result of LoadMessagePattern: "none" before the call, "nil", "error"
    gotRegex,                  \* last result of TriggerRegex(): "none", "nil", "compiled"
    gotTemplate                \* last result of MessagePatternTemplate(): "none", "nil", "parsed"

routeVars == <<route, triggerRegex, messagePatternTemplate, loadErr, gotRegex, gotTemplate>>

\* a Route as decoded from the configuration file
UnloadedRoute ==
    /\ triggerRegex = "nil"
    /\ messagePatternTemplate = "nil"
    /\ loadErr = "none"
    /\ gotRegex = "none"
    /\ gotTemplate = "none"

RouteInit == route \in Routes /\ UnloadedRoute

RouteQuiet ==
    /\ route = [IsEnabled |-> FALSE, Regex |-> "", Custom |-> "", MessagePattern |-> ""]
    /\ UnloadedRoute

\* the process starts, and routes are evaluated, only after
\* LoadMessagePattern returned no error
RouteStarted == loadErr = "nil"

LoadMessagePattern ==
    /\ loadErr = "none"
    /\ IF ~route.IsEnabled
       THEN /\ loadErr' = "nil"
            /\ UNCHANGED <<triggerRegex, messagePatternTemplate>>
       ELSE IF ~Parses(route.MessagePattern)
       THEN /\ messagePatternTemplate' = "nil"
            /\ loadErr' = "error"
            /\ UNCHANGED triggerRegex
       ELSE /\ messagePatternTemplate' = "parsed"
            /\ IF route.Regex # "" /\ route.Custom = ""
               THEN IF Compiles(route.Regex)
                    THEN triggerRegex' = "compiled" /\ loadErr' = "nil"
                    ELSE triggerRegex' = "nil" /\ loadErr' = "error"
               ELSE UNCHANGED triggerRegex /\ loadErr' = "nil"
    /\ UNCHANGED <<route, gotRegex, gotTemplate>>

\* evaluation of a route that passed load asks for its regex
TriggerRegex ==
    /\ RouteStarted
    /\ gotRegex = "none"
    /\ gotRegex' = triggerRegex
    /\ UNCHANGED <<route, triggerRegex, messagePatternTemplate, loadErr, gotTemplate>>

\* evaluation of a route that passed load asks for its template; a missing
\* one is parsed on the spot and the error dropped
MessagePatternTemplate ==
    /\ RouteStarted
    /\ gotTemplate = "none"
    /\ messagePatternTemplate' =
          IF messagePatternTemplate = "nil"
          THEN IF Parses(route.MessagePattern) THEN "parsed" ELSE "nil"
          ELSE messagePatternTemplate
    /\ gotTemplate' = messagePatternTemplate'
    /\ UNCHANGED <<route, triggerRegex, loadErr, gotRegex>>

(***************************************************************************)
(* auction: classification of a message                                    *)
(*                                                                         *)
(* A message is a sequence of characters here, since strings.Contains      *)
(* finds a keyword inside a longer word as well.                           *)
(***************************************************************************)
MaxFragments == 3

\* pieces a message is put together from: the keywords in capitals, in small
\* letters and in mixed case, a keyword split in two, a word that holds a
\* keyword, other text and a delimiter
Fragments ==
    {<<"W", "T", "S">>, <<"w", "t", "b">>, <<"W", "t">>, <<"s">>, <<"B">>,
     <<"n", "e", "w", "t", "s">>, <<" ", "x", " ">>, <<"/">>}

RECURSIVE MessagesUpTo(_)
MessagesUpTo(n) ==
    IF n = 0 THEN {<<>>}
    ELSE MessagesUpTo(n - 1) \cup
         {m \o f : m \in MessagesUpTo(n - 1), f \in Fragments}

AuctionMessages == MessagesUpTo(MaxFragments)

\* strings.ToUpper on one character
ToUpperChar(c) ==
    CASE c = "w" -> "W"
      [] c = "t" -> "T"
      [] c = "s" -> "S"
      [] c = "b" -> "B"
      [] c = "n" -> "N"
      [] c = "e" -> "E"
      [] c = "x" -> "X"
      [] OTHER -> c

ToUpper(s) == [i \in 1..Len(s) |-> ToUpperChar(s[i])]

IsAuctionMessage(message) ==
    LET upper == ToUpper(message)
    IN  Contains(upper, <<"W", "T", "S">>) \/ Contains(upper, <<"W", "T", "B">>)

\* mutant: the keywords are looked for in the message as written
ParseCaseSensitive(seller, message) ==
    LET hasWTS == Contains(message, <<"W", "T", "S">>)
        hasWTB == Contains(message, <<"W", "T", "B">>)
    IN  [Type |-> IF hasWTS /\ hasWTB THEN "ListingMixed"
                  ELSE IF hasWTB THEN "ListingWTB"
                  ELSE "ListingWTS",
         Seller |-> seller,
         RawText |-> message]

\* Parse without listing.Items, which extractItems fills from the message
\* alone and which has no part in the type
Parse(seller, message) ==
    LET upper == ToUpper(message)
        hasWTS == Contains(upper, <<"W", "T", "S">>)
        hasWTB == Contains(upper, <<"W", "T", "B">>)
    IN  [Type |-> IF hasWTS /\ hasWTB THEN "ListingMixed"
                  ELSE IF hasWTB THEN "ListingWTB"
                  ELSE "ListingWTS",
         Seller |-> seller,
         RawText |-> message]

VARIABLES
    aucMessage,    \* the message
    aucDone,       \* IsAuctionMessage and Parse have returned
    aucIs,         \* result of IsAuctionMessage
    aucListing     \* result of Parse

aucVars == <<aucMessage, aucDone, aucIs, aucListing>>

NoListing == [Type |-> "none", Seller |-> "", RawText |-> <<>>]

AuctionQuiet ==
    /\ aucMessage = <<>>
    /\ aucDone = TRUE
    /\ aucIs = FALSE
    /\ aucListing = NoListing

AuctionInit ==
    /\ aucMessage \in AuctionMessages
    /\ aucDone = FALSE
    /\ aucIs = FALSE
    /\ aucListing = NoListing

\* a message is tested and, whatever the answer, parsed
AuctionCall ==
    /\ ~aucDone
    /\ aucIs' = IsAuctionMessage(aucMessage)
    /\ aucListing' = Parse("Seller", aucMessage)
    /\ aucDone' = TRUE
    /\ UNCHANGED aucMessage
(***************************************************************************)
(* discord: Connect, IsConnected, Disconnect and the supervisor's retry    *)
(***************************************************************************)
MaxDiscordLoops == 5

VARIABLES
    discord,       \* discord.Discord: config.IsEnabled, isConnected, conn, id, loops
    discordErr,    \* what the last Connect returned: "none" before any call
    discordOp      \* the last call: "none", "connect", "disconnect"

discordVars == <<discord, discordErr, discordOp>>

\* the step of Connect that fails; "nil" when every step succeeds
ConnectFailures == {"nil", "new", "open", "get my username", "status", "whoRegister"}

\* discord.New: no session, not connected
DiscordInit ==
    /\ discord \in [IsEnabled : BOOLEAN, isConnected : {FALSE}, conn : {"nil"},
                    id : {""}, loops : {0}]
    /\ discordErr = "none"
    /\ discordOp = "none"

DiscordQuiet ==
    /\ discord = [IsEnabled |-> FALSE, isConnected |-> FALSE, conn |-> "nil",
                  id |-> "", loops |-> 0]
    /\ discordErr = "none"
    /\ discordOp = "none"

DiscordIsConnected == discord.isConnected

\* Connect: the old session is closed, a new one made and opened, the loop
\* goroutine started and the flag set; then the bot user is fetched, the
\* status updated and the who command registered
DiscordConnect(failure) ==
    /\ discordOp' = "connect"
    /\ IF ~discord.IsEnabled
          THEN /\ discordErr' = "nil"
               /\ UNCHANGED discord
          ELSE /\ failure \in {"new", "open"} \/ discord.loops < MaxDiscordLoops
               /\ discordErr' = failure
               /\ discord' =
                    [discord EXCEPT
                       !.conn = IF failure = "new" THEN "nil"
                                ELSE IF failure = "open" THEN "new" ELSE "open",
                       !.loops = IF failure \in {"new", "open"} THEN @ ELSE @ + 1,
                       !.isConnected = IF failure \in {"new", "open"} THEN @ ELSE TRUE,
                       !.id = IF failure \in {"new", "open", "get my username"}
                                 THEN @ ELSE "me"]

DiscordDisconnect ==
    /\ discordOp' = "disconnect"
    /\ discord' = IF discord.IsEnabled /\ discord.isConnected
                     THEN [discord EXCEPT !.conn = "nil", !.isConnected = FALSE]
                     ELSE discord
    /\ UNCHANGED discordErr

\* Client.loop after its sleep: Connect is called again only when the adapter
\* is enabled and reports that it is not connected
DiscordKeepAlive(failure) ==
    /\ discord.IsEnabled
    /\ ~DiscordIsConnected
    /\ DiscordConnect(failure)
(***************************************************************************)
(* web: the save rate limiter and handleConfigSave                         *)
(***************************************************************************)
\* newRateLimiter(5, time.Minute); time is counted in minutes
SaveLimit == 5
SaveWindow == 1

MaxTime == 1
MaxAdmitted == 6
MaxTokens == 2
\* two requests are served at a time
Savers == {1, 2}

VARIABLES
    webNow,        \* time.Now()
    saveLimiter,   \* saveLimiter.requests, the recorded timestamps
    admitted,      \* the times of all requests the limiter admitted
    fullConfig,    \* w.fullConfig, the in-memory configuration
    confFile,      \* the content of talkeq.conf
    csrfToken,     \* w.csrfToken
    savers,        \* the handleConfigSave calls in flight: where each is, the
                   \* token and body of its request, and whether it has changed
                   \* the in-memory configuration
    lastAnswer,    \* the status of the last answer sent, 0 before any
    okTokens       \* the tokens of the saves answered 200

webSaveVars == <<webNow, saveLimiter, admitted, fullConfig, confFile, csrfToken,
                 savers, lastAnswer, okTokens>>

\* request bodies: too large, not JSON, or a configSaveRequest with the
\* debug field absent ("nil") or set
SaveBodies == {"oversize", "invalid", "nil", "true"}

IdleSaver == [pc |-> "idle", token |-> -1, body |-> "nil", changed |-> FALSE]

WebSaveInit ==
    /\ webNow = 0
    /\ saveLimiter = <<>>
    /\ admitted = <<>>
    /\ fullConfig = [Debug |-> FALSE]
    /\ confFile = "old"
    /\ csrfToken = 0
    /\ savers = [r \in Savers |-> IdleSaver]
    /\ lastAnswer = 0
    /\ okTokens = {}

WebSaveQuiet ==
    /\ webNow = 0
    /\ saveLimiter = <<>>
    /\ admitted = <<>>
    /\ fullConfig = [Debug |-> FALSE]
    /\ confFile = "old"
    /\ csrfToken = 0
    /\ savers = [r \in Savers |-> IdleSaver]
    /\ lastAnswer = 0
    /\ okTokens = {}

\* the requests slice after pruning: the timestamps after now - window
Pruned(requests, now) == SelectSeq(requests, LAMBDA t : t > now - SaveWindow)

\* mutant: a full limiter admits one more request
allowOneMore(requests, now) ==
    LET valid == Pruned(requests, now)
    IN  IF Len(valid) > SaveLimit
        THEN [ok |-> FALSE, requests |-> valid]
        ELSE [ok |-> TRUE, requests |-> Append(valid, now)]

\* rateLimiter.allow: the answer and the requests slice it leaves
allow(requests, now) ==
    LET valid == Pruned(requests, now)
    IN  IF Len(valid) >= SaveLimit
        THEN [ok |-> FALSE, requests |-> valid]
        ELSE [ok |-> TRUE, requests |-> Append(valid, now)]

\* the answer is written and the handler returns
Answer(r, status) ==
    /\ savers' = [savers EXCEPT ![r] = IdleSaver]
    /\ lastAnswer' = status

WebTick ==
    /\ webNow < MaxTime
    /\ webNow' = webNow + 1
    /\ UNCHANGED <<saveLimiter, admitted, fullConfig, confFile, csrfToken, savers,
                   lastAnswer, okTokens>>

\* handleConfigSave up to the decoded body: a request arrives with a method,
\* the token its client holds (the current one, an earlier one or none) and
\* a body; the limiter is asked, the token compared, the body read and decoded
SaveBegin(r, method, token, body) ==
    /\ savers[r].pc = "idle"
    /\ Len(admitted) < MaxAdmitted
    /\ csrfToken < MaxTokens
    /\ LET answer == allow(saveLimiter, webNow)
       IN  IF method # "POST"
           THEN /\ Answer(r, 405)
                /\ UNCHANGED <<saveLimiter, admitted>>
           ELSE /\ saveLimiter' = answer.requests
                /\ admitted' = IF answer.ok THEN Append(admitted, webNow) ELSE admitted
                /\ IF ~answer.ok THEN Answer(r, 429)
                   ELSE IF token # csrfToken THEN Answer(r, 403)
                   ELSE IF body = "oversize" THEN Answer(r, 413)
                   ELSE IF body = "invalid" THEN Answer(r, 400)
                   ELSE /\ savers' = [savers EXCEPT ![r] =
                                        [IdleSaver EXCEPT !.pc = "decoded", !.token = token,
                                                          !.body = body]]
                        /\ UNCHANGED lastAnswer
    /\ UNCHANGED <<webNow, fullConfig, confFile, csrfToken, okTokens>>

\* under w.mutex the fields present in the request are written into the
\* in-memory configuration
SaveApply(r) ==
    /\ savers[r].pc = "decoded"
    /\ fullConfig' = IF savers[r].body = "nil" THEN fullConfig
                     ELSE [fullConfig EXCEPT !.Debug = (savers[r].body = "true")]
    /\ savers' = [savers EXCEPT ![r].pc = "applied",
                                ![r].changed = (fullConfig' # fullConfig)]
    /\ UNCHANGED <<webNow, saveLimiter, admitted, confFile, csrfToken, lastAnswer,
                   okTokens>>

FinishOutcomes == {"ok", "create fails", "encode fails", "rand fails"}

\* os.Create truncates talkeq.conf and the encoder writes the configuration
\* as it is in memory at that time; then a new token is drawn, stored under
\* w.mutex and returned with status 200
SaveFinish(r, outcome) ==
    /\ savers[r].pc = "applied"
    /\ confFile' = CASE outcome = "create fails" -> confFile
                     [] outcome = "encode fails" -> "partial"
                     [] OTHER -> IF fullConfig.Debug THEN "debug" ELSE "nodebug"
    /\ csrfToken' = IF outcome = "ok" THEN csrfToken + 1 ELSE csrfToken
    /\ okTokens' = IF outcome = "ok" THEN okTokens \cup {savers[r].token} ELSE okTokens
    /\ Answer(r, IF outcome = "ok" THEN 200 ELSE 500)
    /\ UNCHANGED <<webNow, saveLimiter, admitted, fullConfig>>
(***************************************************************************)
(* webhook: POST /api/send                                                 *)
(***************************************************************************)
MaxSendSubscribers == 2

VARIABLES
    sendConfig,    \* config.Webhook: Token
    sendSubs,      \* w.subscribers: what each returns when called, "ok" or "fail"
    sendReq,       \* the request: Method, Authorization header, body
    sendAnswer     \* the status written and the subscribers called, in order

sendVars == <<sendConfig, sendSubs, sendReq, sendAnswer>>

\* Authorization headers, as sequences of words and spaces
AuthHeaders ==
    {<<>>, <<"Bearer", " ", "secret">>, <<"BEARER", " ", "secret">>,
     <<"Bearer", " ", "wrong">>, <<"Basic", " ", "secret">>, <<"Bearersecret">>}

\* bodies: one that is not JSON, and those that decode to a SendRequest
SendBodies ==
    [JSON : {FALSE}, Channel : {""}, Message : {""}, Sender : {""}]
        \cup [JSON : {TRUE}, Channel : {"", "ooc", "Guild", "tell"}, Message : {"", "hi"},
              Sender : {"", "Bob"}]

RECURSIVE SubscribersUpTo(_)
SubscribersUpTo(n) ==
    IF n = 0 THEN {<<>>}
    ELSE LET shorter == SubscribersUpTo(n - 1)
         IN  shorter \cup {Append(s, o) : s \in shorter, o \in {"ok", "fail"}}

NoSend == [status |-> 0, calls |-> <<>>]

SendInit ==
    /\ sendConfig \in [Token : {"", "secret"}]
    /\ sendSubs \in SubscribersUpTo(MaxSendSubscribers)
    /\ sendReq \in [Method : {"POST", "GET"}, Authorization : AuthHeaders, Body : SendBodies]
    /\ sendAnswer = NoSend

SendQuiet ==
    /\ sendConfig = [Token |-> ""]
    /\ sendSubs = <<>>
    /\ sendReq = [Method |-> "GET", Authorization |-> <<>>,
                  Body |-> [JSON |-> FALSE, Channel |-> "", Message |-> "", Sender |-> ""]]
    /\ sendAnswer = [status |-> 405, calls |-> <<>>]

\* strings.ToLower / strings.EqualFold on the words in use
LowerWord(w) ==
    CASE w = "Bearer" -> "bearer"
      [] w = "BEARER" -> "bearer"
      [] w = "Basic" -> "basic"
      [] w = "Bearersecret" -> "bearersecret"
      [] w = "Guild" -> "guild"
      [] OTHER -> w

\* strings.SplitN(auth, " ", 2): the text before the first space and the rest
SplitAuth(auth) ==
    IF \E i \in 1..Len(auth) : auth[i] = " "
    THEN LET i == CHOOSE k \in 1..Len(auth) :
                     auth[k] = " " /\ \A j \in 1..(k - 1) : auth[j] # " "
         IN  <<SubSeq(auth, 1, i - 1), SubSeq(auth, i + 1, Len(auth))>>
    ELSE <<auth>>

authenticate(auth, token) ==
    IF token = "" THEN TRUE
    ELSE IF auth = <<>> THEN FALSE
    ELSE LET parts == SplitAuth(auth)
         IN  IF Len(parts) # 2 \/ Len(parts[1]) # 1 \/ LowerWord(parts[1][1]) # "bearer"
             THEN FALSE
             ELSE parts[2] = <<token>>

\* the keys of channelCommands
SendChannels == {"ooc", "auction", "shout", "guild", "broadcast"}

\* the subscriber loop: every subscriber is called; sent tells whether one
\* returned no error
RECURSIVE CallSubscribers(_, _, _, _)
CallSubscribers(subs, i, calls, sent) ==
    IF i > Len(subs) THEN [calls |-> calls, sent |-> sent]
    ELSE CallSubscribers(subs, i + 1, Append(calls, i), sent \/ subs[i] = "ok")

\* mutant: the loop ends at the first subscriber that fails
handleSendStopsAtFailure ==
    /\ sendAnswer = NoSend
    /\ LET body == sendReq.Body
           Fails(i) == sendSubs[i] = "fail"
           last == IF \E i \in DOMAIN sendSubs : Fails(i)
                   THEN CHOOSE i \in DOMAIN sendSubs :
                            Fails(i) /\ \A j \in 1..(i - 1) : ~Fails(j)
                   ELSE Len(sendSubs)
           done == CallSubscribers(SubSeq(sendSubs, 1, last), 1, <<>>, FALSE)
       IN  sendAnswer' =
             IF sendReq.Method # "POST" THEN [status |-> 405, calls |-> <<>>]
             ELSE IF ~authenticate(sendReq.Authorization, sendConfig.Token)
             THEN [status |-> 401, calls |-> <<>>]
             ELSE IF ~body.JSON THEN [status |-> 400, calls |-> <<>>]
             ELSE IF body.Channel = "" \/ body.Message = "" \/ body.Sender = ""
             THEN [status |-> 400, calls |-> <<>>]
             ELSE IF LowerWord(body.Channel) \notin SendChannels
             THEN [status |-> 400, calls |-> <<>>]
             ELSE [status |-> IF done.sent THEN 200 ELSE 503, calls |-> done.calls]
    /\ UNCHANGED <<sendConfig, sendSubs, sendReq>>

handleSend ==
    /\ sendAnswer = NoSend
    /\ LET body == sendReq.Body
           done == CallSubscribers(sendSubs, 1, <<>>, FALSE)
       IN  sendAnswer' =
             IF sendReq.Method # "POST" THEN [status |-> 405, calls |-> <<>>]
             ELSE IF ~authenticate(sendReq.Authorization, sendConfig.Token)
             THEN [status |-> 401, calls |-> <<>>]
             ELSE IF ~body.JSON THEN [status |-> 400, calls |-> <<>>]
             ELSE IF body.Channel = "" \/ body.Message = "" \/ body.Sender = ""
             THEN [status |-> 400, calls |-> <<>>]
             ELSE IF LowerWord(body.Channel) \notin SendChannels
             THEN [status |-> 400, calls |-> <<>>]
             ELSE [status |-> IF done.sent THEN 200 ELSE 503, calls |-> done.calls]
    /\ UNCHANGED <<sendConfig, sendSubs, sendReq>>
(***************************************************************************)
(* webhook and web: Connect, Disconnect and the server goroutine           *)
(***************************************************************************)
MaxServers == 3

VARIABLES
    srvEnabled,    \* config.IsEnabled
    srvConnected,  \* w.isConnected
    srvServer,     \* w.server: the number of the last server made, 0 for nil
    srvServing,    \* the servers whose ListenAndServe has not returned
    srvReturned,   \* the servers whose ListenAndServe has returned and whose
                   \* goroutine has not yet cleared the flag
    srvDisconnect  \* Disconnect: "idle", or "shut" between Shutdown and its return

serverVars == <<srvEnabled, srvConnected, srvServer, srvServing, srvReturned,
                srvDisconnect>>

ServerInit ==
    /\ srvEnabled \in BOOLEAN
    /\ srvConnected = FALSE
    /\ srvServer = 0
    /\ srvServing = {}
    /\ srvReturned = {}
    /\ srvDisconnect = "idle"

ServerQuiet ==
    /\ srvEnabled = FALSE
    /\ srvConnected = FALSE
    /\ srvServer = 0
    /\ srvServing = {}
    /\ srvReturned = {}
    /\ srvDisconnect = "idle"

ServerIsConnected == srvConnected

\* Connect, under the mutex: a new server is made, its goroutine started and
\* the flag set
ServerConnect ==
    /\ srvEnabled
    /\ srvServer < MaxServers
    /\ srvServer' = srvServer + 1
    /\ srvServing' = srvServing \cup {srvServer + 1}
    /\ srvConnected' = TRUE
    /\ UNCHANGED <<srvEnabled, srvReturned, srvDisconnect>>

\* ListenAndServe returns with an error: the listener could not be opened,
\* or the server failed
ServeFails(s) ==
    /\ s \in srvServing
    /\ srvServing' = srvServing \ {s}
    /\ srvReturned' = srvReturned \cup {s}
    /\ UNCHANGED <<srvEnabled, srvConnected, srvServer, srvDisconnect>>

\* the goroutine of Connect after ListenAndServe: the flag is cleared under
\* the mutex
ServeExit(s) ==
    /\ s \in srvReturned
    /\ srvReturned' = srvReturned \ {s}
    /\ srvConnected' = FALSE
    /\ UNCHANGED <<srvEnabled, srvServer, srvServing, srvDisconnect>>

\* Disconnect up to Shutdown, which makes ListenAndServe of w.server return
ServerShutdown ==
    /\ srvDisconnect = "idle"
    /\ srvEnabled
    /\ srvConnected
    /\ srvDisconnect' = "shut"
    /\ srvServing' = srvServing \ {srvServer}
    /\ srvReturned' = srvReturned \cup (srvServing \cap {srvServer})
    /\ UNCHANGED <<srvEnabled, srvConnected, srvServer>>

\* Disconnect after Shutdown: the flag is cleared, without the mutex
ServerDisconnected ==
    /\ srvDisconnect = "shut"
    /\ srvDisconnect' = "idle"
    /\ srvConnected' = FALSE
    /\ UNCHANGED <<srvEnabled, srvServer, srvServing, srvReturned>>
(***************************************************************************)
(* config: Web.Verify and Webhook.Verify                                   *)
(***************************************************************************)
\* host settings, as sequences of words and of the characters : [ ]
HostLoopback == <<"127.0.0.1", ":", "8080">>
HostLocalhost == <<"localhost", ":", "8080">>
HostV6Loopback == <<"[", ":", ":", "1", "]", ":", "8080">>
HostV6Bare == <<":", ":", "1", ":", "8080">>
HostAny == <<"0.0.0.0", ":", "8080">>
HostV6Any == <<"[", ":", ":", "]", ":", "8080">>
HostPortOnly == <<":", "8080">>
HostLan == <<"192.168.1.5", ":", "8080">>
HostName == <<"example.com", ":", "8080">>
HostNoPort == <<"127.0.0.1">>

VerifyHosts ==
    {<<>>, HostLoopback, HostLocalhost, HostV6Loopback, HostV6Bare, HostAny, HostV6Any,
     HostPortOnly, HostLan, HostName, HostNoPort}

VARIABLES
    webConf,       \* config.Web
    webVerified,   \* what Web.Verify returned: "none" before the call
    hookConf,      \* config.Webhook
    hookVerified   \* what Webhook.Verify returned: "none" before the call

verifyVars == <<webConf, webVerified, hookConf, hookVerified>>

VerifyInit ==
    /\ webConf \in [IsEnabled : BOOLEAN, Host : VerifyHosts, Username : {"", "admin"},
                    Password : {"", "pw"}]
    /\ webVerified = "none"
    /\ hookConf \in [IsEnabled : BOOLEAN, Host : VerifyHosts]
    /\ hookVerified = "none"

VerifyQuiet ==
    /\ webConf = [IsEnabled |-> FALSE, Host |-> <<>>, Username |-> "", Password |-> ""]
    /\ webVerified = "nil"
    /\ hookConf = [IsEnabled |-> FALSE, Host |-> <<>>]
    /\ hookVerified = "nil"

Colons(h) == {i \in 1..Len(h) : h[i] = ":"}

Max(S) == CHOOSE n \in S : \A m \in S : m <= n
Min(S) == CHOOSE n \in S : \A m \in S : n <= m

\* net.SplitHostPort: the text before the last colon, without its brackets,
\* and the text after it; an error without a colon, with a colon in an
\* unbracketed host, or with a bracket that does not end before the last colon
SplitHostPort(h) ==
    IF Colons(h) = {} THEN [err |-> TRUE, host |-> <<>>, port |-> <<>>]
    ELSE LET i == Max(Colons(h))
             port == SubSeq(h, i + 1, Len(h))
         IN  IF h[1] = "["
             THEN IF i > 2 /\ h[i - 1] = "]" /\ \A j \in 2..(i - 2) : h[j] \notin {"[", "]"}
                  THEN [err |-> FALSE, host |-> SubSeq(h, 2, i - 2), port |-> port]
                  ELSE [err |-> TRUE, host |-> <<>>, port |-> <<>>]
             ELSE IF \E j \in 1..(i - 1) : h[j] \in {":", "[", "]"}
                  THEN [err |-> TRUE, host |-> <<>>, port |-> <<>>]
                  ELSE [err |-> FALSE, host |-> SubSeq(h, 1, i - 1), port |-> port]

\* net.ParseIP and IP.IsLoopback on the hosts in use
ParseIP(host) ==
    CASE host = <<"127.0.0.1">> -> "loopback"
      [] host = <<":", ":", "1">> -> "loopback"
      [] host = <<"0.0.0.0">> -> "other"
      [] host = <<":", ":">> -> "other"
      [] host = <<"192.168.1.5">> -> "other"
      [] OTHER -> "nil"

\* Web.Verify: the error returned ("nil" for none) and the Host it leaves
WebVerify(c) ==
    IF ~c.IsEnabled THEN [err |-> "nil", Host |-> c.Host]
    ELSE LET given == IF c.Host = <<>> THEN HostLoopback ELSE c.Host
             split == SplitHostPort(given)
             forced == <<"127.0.0.1", ":">> \o split.port
         IN  IF split.err THEN [err |-> "invalid host format", Host |-> given]
             ELSE LET Host == IF split.host \in {<<>>, <<"0.0.0.0">>, <<":", ":">>}
                                 \/ ParseIP(split.host) = "other"
                              THEN forced ELSE given
                  IN  IF c.Username # "" /\ c.Password = ""
                      THEN [err |-> "password is empty", Host |-> Host]
                      ELSE [err |-> "nil", Host |-> Host]

\* Webhook.Verify: strings.Split(c.Host, ":")[0] is the text before the first
\* colon
WebhookVerify(c) ==
    IF ~c.IsEnabled THEN [err |-> "nil", Host |-> c.Host]
    ELSE LET given == IF c.Host = <<>> THEN <<"127.0.0.1", ":", "9934">> ELSE c.Host
             host == IF Colons(given) = {} THEN given
                     ELSE SubSeq(given, 1, Min(Colons(given)) - 1)
         IN  IF host \in {<<"127.0.0.1">>, <<"localhost">>, <<":", ":", "1">>}
             THEN [err |-> "nil", Host |-> given]
             ELSE [err |-> "host must bind to localhost", Host |-> given]

WebVerifyCall ==
    /\ webVerified = "none"
    /\ webVerified' = WebVerify(webConf).err
    /\ webConf' = [webConf EXCEPT !.Host = WebVerify(webConf).Host]
    /\ UNCHANGED <<hookConf, hookVerified>>

WebhookVerifyCall ==
    /\ hookVerified = "none"
    /\ hookVerified' = WebhookVerify(hookConf).err
    /\ hookConf' = [hookConf EXCEPT !.Host = WebhookVerify(hookConf).Host]
    /\ UNCHANGED <<webConf, webVerified>>

(***************************************************************************)
(* Specifications.  Every component has its own; the variables of the      *)
(* other components then stay at the values of a quiet start.              *)
(***************************************************************************)
vars == <<raidVars, presVars, telVars, config, hubVars, supVars, statVars, lockVars, whoVars, parseVars, routeVars, aucVars, discordVars, webSaveVars, sendVars, serverVars, verifyVars>>

\* getDefaultConfig, every adapter enabled
DefaultConfig ==
    [IsKeepAliveEnabled |-> TRUE, KeepAliveRetry |-> "10s",
     Enabled |-> [a \in Adapters |-> TRUE]]

RaidQuiet ==
    /\ RaidInit
    /\ rcfg = [IsEnabled |-> FALSE, AutoPost |-> FALSE,
               NotifyDiscord |-> FALSE, DiscordChannelID |-> ""]
TelnetQuiet == TelnetInit /\ tcfg = [IsEnabled |-> FALSE, ChannelID |-> ""]
\* quiet start of the components below, but for those named in S
NewQuietExcept(S) ==
    /\ IF "auction" \in S THEN TRUE ELSE AuctionQuiet
    /\ IF "verify" \in S THEN TRUE ELSE VerifyQuiet
    /\ IF "server" \in S THEN TRUE ELSE ServerQuiet
    /\ IF "send" \in S THEN TRUE ELSE SendQuiet
    /\ IF "websave" \in S THEN TRUE ELSE WebSaveQuiet
    /\ IF "discord" \in S THEN TRUE ELSE DiscordQuiet

ClientQuiet == config = DefaultConfig /\ HubInit /\ SupervisorInit /\ LockInit /\ WhoInit /\ ParseQuiet /\ RouteQuiet /\ NewQuietExcept({})

OldQuiet == RaidQuiet /\ PresenceInit /\ TelnetQuiet /\ ParseQuiet /\ RouteQuiet /\ config = DefaultConfig /\ HubInit /\ SupervisorInit /\ LockInit /\ WhoInit

\* the timer fires while the rest of the program stands still
TimerExpireStep ==
    /\ TimerExpire
    /\ UNCHANGED <<presVars, telVars, config, hubVars, supVars, statVars, lockVars, whoVars, parseVars, routeVars, aucVars, discordVars, webSaveVars, sendVars, serverVars, verifyVars>>

RaidNext ==
    \/ /\ \E line \in TelnetLines : ProcessTelnetLine(line)
       /\ UNCHANGED <<presVars, telVars, config, hubVars, supVars, statVars, lockVars, whoVars, parseVars, routeVars, aucVars, discordVars, webSaveVars, sendVars, serverVars, verifyVars>>
    \/ TimerExpireStep
    \/ /\ TimerCallback
       /\ UNCHANGED <<presVars, telVars, config, hubVars, supVars, statVars, lockVars, whoVars, parseVars, routeVars, aucVars, discordVars, webSaveVars, sendVars, serverVars, verifyVars>>

RouteNext ==
    \/ /\ LoadMessagePattern
       /\ UNCHANGED <<raidVars, presVars, telVars, config, hubVars, supVars, statVars, lockVars, whoVars, parseVars, aucVars, discordVars, webSaveVars, sendVars, serverVars, verifyVars>>
    \/ /\ TriggerRegex
       /\ UNCHANGED <<raidVars, presVars, telVars, config, hubVars, supVars, statVars, lockVars, whoVars, parseVars, aucVars, discordVars, webSaveVars, sendVars, serverVars, verifyVars>>
    \/ /\ MessagePatternTemplate
       /\ UNCHANGED <<raidVars, presVars, telVars, config, hubVars, supVars, statVars, lockVars, whoVars, parseVars, aucVars, discordVars, webSaveVars, sendVars, serverVars, verifyVars>>

DiscordNext ==
    \/ /\ \E failure \in ConnectFailures : DiscordConnect(failure)
       /\ UNCHANGED <<raidVars, presVars, telVars, config, hubVars, supVars, statVars, lockVars, whoVars, parseVars, routeVars, aucVars, webSaveVars, sendVars, serverVars, verifyVars>>
    \/ /\ DiscordDisconnect
       /\ UNCHANGED <<raidVars, presVars, telVars, config, hubVars, supVars, statVars, lockVars, whoVars, parseVars, routeVars, aucVars, webSaveVars, sendVars, serverVars, verifyVars>>
    \/ /\ \E failure \in ConnectFailures : DiscordKeepAlive(failure)
       /\ UNCHANGED <<raidVars, presVars, telVars, config, hubVars, supVars, statVars, lockVars, whoVars, parseVars, routeVars, aucVars, webSaveVars, sendVars, serverVars, verifyVars>>

WebSaveNext ==
    \/ /\ WebTick
       /\ UNCHANGED <<raidVars, presVars, telVars, config, hubVars, supVars, statVars, lockVars, whoVars, parseVars, routeVars, aucVars, discordVars, sendVars, serverVars, verifyVars>>
    \/ /\ \E r \in Savers, method \in {"GET", "POST"}, token \in {csrfToken, csrfToken - 1}, body \in SaveBodies : SaveBegin(r, method, token, body)
       /\ UNCHANGED <<raidVars, presVars, telVars, config, hubVars, supVars, statVars, lockVars, whoVars, parseVars, routeVars, aucVars, discordVars, sendVars, serverVars, verifyVars>>
    \/ /\ \E r \in Savers : SaveApply(r)
       /\ UNCHANGED <<raidVars, presVars, telVars, config, hubVars, supVars, statVars, lockVars, whoVars, parseVars, routeVars, aucVars, discordVars, sendVars, serverVars, verifyVars>>
    \/ /\ \E r \in Savers, outcome \in FinishOutcomes : SaveFinish(r, outcome)
       /\ UNCHANGED <<raidVars, presVars, telVars, config, hubVars, supVars, statVars, lockVars, whoVars, parseVars, routeVars, aucVars, discordVars, sendVars, serverVars, verifyVars>>

SendNext ==
    \/ /\ handleSend
       /\ UNCHANGED <<raidVars, presVars, telVars, config, hubVars, supVars, statVars, lockVars, whoVars, parseVars, routeVars, aucVars, discordVars, webSaveVars, serverVars, verifyVars>>

ServerNext ==
    \/ /\ ServerConnect
       /\ UNCHANGED <<raidVars, presVars, telVars, config, hubVars, supVars, statVars, lockVars, whoVars, parseVars, routeVars, aucVars, discordVars, webSaveVars, sendVars, verifyVars>>
    \/ /\ \E s \in 1..MaxServers : ServeFails(s)
       /\ UNCHANGED <<raidVars, presVars, telVars, config, hubVars, supVars, statVars, lockVars, whoVars, parseVars, routeVars, aucVars, discordVars, webSaveVars, sendVars, verifyVars>>
    \/ /\ \E s \in 1..MaxServers : ServeExit(s)
       /\ UNCHANGED <<raidVars, presVars, telVars, config, hubVars, supVars, statVars, lockVars, whoVars, parseVars, routeVars, aucVars, discordVars, webSaveVars, sendVars, verifyVars>>
    \/ /\ ServerShutdown
       /\ UNCHANGED <<raidVars, presVars, telVars, config, hubVars, supVars, statVars, lockVars, whoVars, parseVars, routeVars, aucVars, discordVars, webSaveVars, sendVars, verifyVars>>
    \/ /\ ServerDisconnected
       /\ UNCHANGED <<raidVars, presVars, telVars, config, hubVars, supVars, statVars, lockVars, whoVars, parseVars, routeVars, aucVars, discordVars, webSaveVars, sendVars, verifyVars>>

VerifyNext ==
    \/ /\ WebVerifyCall
       /\ UNCHANGED <<raidVars, presVars, telVars, config, hubVars, supVars, statVars, lockVars, whoVars, parseVars, routeVars, aucVars, discordVars, webSaveVars, sendVars, serverVars>>
    \/ /\ WebhookVerifyCall
       /\ UNCHANGED <<raidVars, presVars, telVars, config, hubVars, supVars, statVars, lockVars, whoVars, parseVars, routeVars, aucVars, discordVars, webSaveVars, sendVars, serverVars>>

AuctionNext ==
    /\ AuctionCall
    /\ UNCHANGED <<raidVars, presVars, telVars, config, hubVars, supVars, statVars, lockVars, whoVars, parseVars, routeVars, discordVars, webSaveVars, sendVars, serverVars, verifyVars>>

ParseNext ==
    \/ /\ ParseRaidDumpCall
       /\ UNCHANGED <<raidVars, presVars, telVars, config, hubVars, supVars, statVars, lockVars, whoVars, routeVars, aucVars, discordVars, webSaveVars, sendVars, serverVars, verifyVars>>
    \/ /\ parseMemberLineCall
       /\ UNCHANGED <<raidVars, presVars, telVars, config, hubVars, supVars, statVars, lockVars, whoVars, routeVars, aucVars, discordVars, webSaveVars, sendVars, serverVars, verifyVars>>
    \/ /\ normalizeClassCall
       /\ UNCHANGED <<raidVars, presVars, telVars, config, hubVars, supVars, statVars, lockVars, whoVars, routeVars, aucVars, discordVars, webSaveVars, sendVars, serverVars, verifyVars>>

PostNext ==
    /\ \E members \in posts, outcome \in PostOutcomes : postAttendance(members, outcome)
    /\ UNCHANGED <<presVars, telVars, config, hubVars, supVars, statVars, lockVars, whoVars, parseVars, routeVars, aucVars, discordVars, webSaveVars, sendVars, serverVars, verifyVars>>

PresenceNext ==
    \/ /\ \E req \in Snapshots : SetCharacters(req)
       /\ UNCHANGED <<raidVars, telVars, config, hubVars, supVars, statVars, lockVars, whoVars, parseVars, routeVars, aucVars, discordVars, webSaveVars, sendVars, serverVars, verifyVars>>
    \/ /\ \E value \in OnlineCounts : SetCharactersOnlineCount(value)
       /\ UNCHANGED <<raidVars, telVars, config, hubVars, supVars, statVars, lockVars, whoVars, parseVars, routeVars, aucVars, discordVars, webSaveVars, sendVars, serverVars, verifyVars>>

RosterNext ==
    \/ /\ \E msg \in RosterLines : parsePlayerEntries(msg)
       /\ UNCHANGED <<raidVars, config, hubVars, supVars, statVars, lockVars, whoVars, parseVars, routeVars, aucVars, discordVars, webSaveVars, sendVars, serverVars, verifyVars>>
    \/ /\ \E msg \in RosterLines : parsePlayersOnline(msg)
       /\ UNCHANGED <<raidVars, config, hubVars, supVars, statVars, lockVars, whoVars, parseVars, routeVars, aucVars, discordVars, webSaveVars, sendVars, serverVars, verifyVars>>
    \/ /\ GraceElapse
       /\ UNCHANGED <<raidVars, config, hubVars, supVars, statVars, lockVars, whoVars, parseVars, routeVars, aucVars, discordVars, webSaveVars, sendVars, serverVars, verifyVars>>
    \/ /\ TelnetConnect
       /\ UNCHANGED <<raidVars, config, hubVars, supVars, statVars, lockVars, whoVars, parseVars, routeVars, aucVars, discordVars, webSaveVars, sendVars, serverVars, verifyVars>>

Failures == [Adapters -> BOOLEAN]

HubNext ==
    /\ \E ev \in Events, fails \in Failures : onMessage(ev, fails)
    /\ UNCHANGED <<raidVars, presVars, telVars, supVars, statVars, lockVars, whoVars, parseVars, routeVars, aucVars, discordVars, webSaveVars, sendVars, serverVars, verifyVars>>

SupervisorNext ==
    \/ /\ ClientNew
       /\ UNCHANGED <<raidVars, presVars, telVars, hubVars, lockVars, whoVars, parseVars, routeVars, aucVars, discordVars, webSaveVars, sendVars, serverVars, verifyVars>>
    \/ /\ ClientNewUnparsed
       /\ UNCHANGED <<raidVars, presVars, telVars, hubVars, lockVars, whoVars, parseVars, routeVars, aucVars, discordVars, webSaveVars, sendVars, serverVars, verifyVars>>
    \/ /\ \E fails \in Failures : ClientConnect(fails)
       /\ UNCHANGED <<raidVars, presVars, telVars, hubVars, lockVars, whoVars, parseVars, routeVars, aucVars, discordVars, webSaveVars, sendVars, serverVars, verifyVars>>
    \/ /\ LoopStart
       /\ UNCHANGED <<raidVars, presVars, telVars, hubVars, lockVars, whoVars, parseVars, routeVars, aucVars, discordVars, webSaveVars, sendVars, serverVars, verifyVars>>
    \/ /\ LoopAgain
       /\ UNCHANGED <<raidVars, presVars, telVars, hubVars, lockVars, whoVars, parseVars, routeVars, aucVars, discordVars, webSaveVars, sendVars, serverVars, verifyVars>>
    \/ /\ \E fails \in Failures : LoopTick(fails)
       /\ UNCHANGED <<raidVars, presVars, telVars, hubVars, lockVars, whoVars, parseVars, routeVars, aucVars, discordVars, webSaveVars, sendVars, serverVars, verifyVars>>
    \/ /\ LoopExit
       /\ UNCHANGED <<raidVars, presVars, telVars, hubVars, lockVars, whoVars, parseVars, routeVars, aucVars, discordVars, webSaveVars, sendVars, serverVars, verifyVars>>
    \/ /\ \E a \in Adapters : AdapterDrop(a)
       /\ UNCHANGED <<raidVars, presVars, telVars, hubVars, lockVars, whoVars, parseVars, routeVars, aucVars, discordVars, webSaveVars, sendVars, serverVars, verifyVars>>
    \/ /\ ClientDisconnect
       /\ UNCHANGED <<raidVars, presVars, telVars, hubVars, lockVars, whoVars, parseVars, routeVars, aucVars, discordVars, webSaveVars, sendVars, serverVars, verifyVars>>
    \/ /\ CallerCancel
       /\ UNCHANGED <<raidVars, presVars, telVars, hubVars, lockVars, whoVars, parseVars, routeVars, aucVars, discordVars, webSaveVars, sendVars, serverVars, verifyVars>>

LockNext ==
    \/ /\ \E req \in LockSnapshots : SetCharactersLock(req)
       /\ UNCHANGED <<raidVars, telVars, config, hubVars, supVars, statVars, whoVars, parseVars, routeVars, aucVars, discordVars, webSaveVars, sendVars, serverVars, verifyVars>>
    \/ /\ SetCharactersStore
       /\ UNCHANGED <<raidVars, telVars, config, hubVars, supVars, statVars, whoVars, parseVars, routeVars, aucVars, discordVars, webSaveVars, sendVars, serverVars, verifyVars>>
    \/ /\ SetCharactersUnlock
       /\ UNCHANGED <<raidVars, telVars, config, hubVars, supVars, statVars, whoVars, parseVars, routeVars, aucVars, discordVars, webSaveVars, sendVars, serverVars, verifyVars>>
    \/ /\ \E value \in StrayCounts : SetCharactersOnlineCountLocked(value)
       /\ UNCHANGED <<raidVars, telVars, config, hubVars, supVars, statVars, whoVars, parseVars, routeVars, aucVars, discordVars, webSaveVars, sendVars, serverVars, verifyVars>>
    \/ /\ \E r \in Readers : CharactersOnlineRLock(r)
       /\ UNCHANGED <<raidVars, telVars, config, hubVars, supVars, statVars, whoVars, parseVars, routeVars, aucVars, discordVars, webSaveVars, sendVars, serverVars, verifyVars>>
    \/ /\ \E r \in Readers : CharactersOnlineNext(r)
       /\ UNCHANGED <<raidVars, telVars, config, hubVars, supVars, statVars, whoVars, parseVars, routeVars, aucVars, discordVars, webSaveVars, sendVars, serverVars, verifyVars>>
    \/ /\ \E r \in Readers : CharactersOnlineRUnlock(r)
       /\ UNCHANGED <<raidVars, telVars, config, hubVars, supVars, statVars, whoVars, parseVars, routeVars, aucVars, discordVars, webSaveVars, sendVars, serverVars, verifyVars>>
    \/ /\ \E r \in Readers : CharactersOnlineCountRLock(r)
       /\ UNCHANGED <<raidVars, telVars, config, hubVars, supVars, statVars, whoVars, parseVars, routeVars, aucVars, discordVars, webSaveVars, sendVars, serverVars, verifyVars>>
    \/ /\ \E r \in Readers : CharactersOnlineCountRUnlock(r)
       /\ UNCHANGED <<raidVars, telVars, config, hubVars, supVars, statVars, whoVars, parseVars, routeVars, aucVars, discordVars, webSaveVars, sendVars, serverVars, verifyVars>>

WhoNext ==
    /\ \E filter \in WhoFilters : CharactersOnlineCall(filter)
    /\ UNCHANGED <<raidVars, telVars, config, hubVars, supVars, statVars, lockVars, parseVars, routeVars, aucVars, discordVars, webSaveVars, sendVars, serverVars, verifyVars>>

StatusNext ==
    \/ /\ StatusCheck
       /\ UNCHANGED <<raidVars, presVars, telVars, hubVars, lockVars, whoVars, parseVars, routeVars, aucVars, discordVars, webSaveVars, sendVars, serverVars, verifyVars>>
    \/ /\ \E whoFails, updateFails \in BOOLEAN : StatusPoll(whoFails, updateFails)
       /\ UNCHANGED <<raidVars, presVars, telVars, hubVars, lockVars, whoVars, parseVars, routeVars, aucVars, discordVars, webSaveVars, sendVars, serverVars, verifyVars>>

Init ==
    /\ RaidInit
    /\ PresenceInit
    /\ LockInit
    /\ WhoInit
    /\ (ParseQuiet \/ ParseInit)
    /\ RouteInit
    /\ AuctionInit
    /\ VerifyInit
    /\ ServerInit
    /\ SendInit
    /\ WebSaveInit
    /\ DiscordInit
    /\ TelnetInit
    /\ config \in Configs
    /\ HubInit
    /\ SupervisorInit

Next ==
    \/ RaidNext \/ PresenceNext \/ RosterNext \/ HubNext
    \/ SupervisorNext \/ StatusNext \/ LockNext \/ WhoNext \/ PostNext \/ ParseNext \/ RouteNext
    \/ AuctionNext
    \/ VerifyNext
    \/ ServerNext
    \/ SendNext
    \/ WebSaveNext
    \/ DiscordNext

Spec == Init /\ [][Next]_vars

\* the raid dump collector
\* the notification settings are read by postAttendance only
SpecRaidInit ==
    /\ RaidInit
    /\ ~rcfg.NotifyDiscord
    /\ rcfg.DiscordChannelID = ""
    /\ PresenceInit /\ TelnetQuiet /\ ClientQuiet

SpecRaidPostInit == RaidInit /\ PresenceInit /\ TelnetQuiet /\ ClientQuiet

SpecRaid == SpecRaidInit /\ [][RaidNext]_vars

\* the parser functions of the collector, each called once on any argument
SpecParseInit ==
    /\ ParseInit
    /\ RaidQuiet /\ PresenceInit /\ TelnetQuiet
    /\ config = DefaultConfig /\ HubInit /\ SupervisorInit /\ LockInit /\ WhoInit
    /\ RouteQuiet /\ NewQuietExcept({})

SpecParse == SpecParseInit /\ [][ParseNext]_vars

\* the discord adapter is connected, disconnected and reconnected
SpecDiscordInit == DiscordInit /\ OldQuiet /\ NewQuietExcept({"discord"})
SpecDiscord == SpecDiscordInit /\ [][DiscordNext]_vars

\* config save requests served concurrently, under the save rate limiter
SpecWebSaveInit == WebSaveInit /\ OldQuiet /\ NewQuietExcept({"websave"})
SpecWebSave == SpecWebSaveInit /\ [][WebSaveNext]_vars

\* one request to POST /api/send is answered
SpecSendInit == SendInit /\ OldQuiet /\ NewQuietExcept({"send"})
SpecSend == SpecSendInit /\ [][SendNext]_vars

\* a webhook or dashboard server is started, stopped and started again
SpecServerInit == ServerInit /\ OldQuiet /\ NewQuietExcept({"server"})
SpecServer == SpecServerInit /\ [][ServerNext]_vars

\* a dashboard and a webhook configuration are verified, each once
SpecVerifyInit == VerifyInit /\ OldQuiet /\ NewQuietExcept({"verify"})
SpecVerify == SpecVerifyInit /\ [][VerifyNext]_vars

\* auction messages are classified, each once
SpecAuctionInit == AuctionInit /\ OldQuiet /\ NewQuietExcept({"auction"})
SpecAuction == SpecAuctionInit /\ [][AuctionNext]_vars

\* a Route is loaded once and then evaluated
SpecRouteInit ==
    /\ RouteInit
    /\ RaidQuiet /\ PresenceInit /\ TelnetQuiet
    /\ config = DefaultConfig /\ HubInit /\ SupervisorInit /\ LockInit /\ WhoInit
    /\ ParseQuiet /\ NewQuietExcept({})

SpecRoute == SpecRouteInit /\ [][RouteNext]_vars

\* the collector together with the postAttendance goroutines it starts
SpecRaidPost == SpecRaidPostInit /\ [][RaidNext \/ PostNext]_vars

\* The Go runtime fires every armed timer and runs every started callback.
\* A TimerCallback step is possible exactly when callbacks > 0 and always
\* lowers callbacks, so CallbackFairness is WF_vars(TimerCallback) with
\* ENABLED <<TimerCallback>>_vars written out.
CallbackFairness == []<>(callbacks = 0) \/ []<><<TimerCallback>>_vars

FairRaidInit == SpecRaidInit /\ rcfg.AutoPost

FairSpecRaid ==
    FairRaidInit /\ [][RaidNext]_vars /\ WF_vars(TimerExpireStep) /\ CallbackFairness

\* the presence store, called directly
SpecPresenceInit == PresenceInit /\ RaidQuiet /\ TelnetQuiet /\ ClientQuiet

SpecPresence == SpecPresenceInit /\ [][PresenceNext]_vars

\* the presence store under concurrent callers
SpecPresenceLocksInit == SpecPresenceInit

SpecPresenceLocks == SpecPresenceLocksInit /\ [][LockNext]_vars

\* who requests against the map of one dump: the state SetCharacters
\* leaves when it stores the dump in the empty store
SpecWhoInit ==
    /\ characters \in WhoRosters
    /\ onlineCount = Cardinality(DOMAIN characters)
    /\ setRet = [changes |-> [i \in 1..Cardinality(DOMAIN characters) |->
                                PlayerChange(characters[<<WhoName(i)>>], TRUE)],
                 err |-> "nil"]
    /\ prevCharacters = EmptyRoster
    /\ prevCount = 0
    /\ lastReq = characters
    /\ dbRepeat = FALSE
    /\ dbOp = "set"
    /\ RaidQuiet
    /\ TelnetQuiet
    /\ ClientQuiet

SpecWho == SpecWhoInit /\ [][WhoNext]_vars

\* the roster dump parser with the presence store behind it
SpecRosterInit == TelnetInit /\ PresenceInit /\ RaidQuiet /\ ClientQuiet

SpecRoster == SpecRosterInit /\ [][RosterNext]_vars

\* the dispatch hub under every choice of enabled destinations
SpecDispatchInit ==
    /\ config \in {c \in Configs :
                    /\ c.IsKeepAliveEnabled
                    /\ c.KeepAliveRetry = "10s"
                    /\ \A a \in Adapters \ Destinations : c.Enabled[a]}
    /\ HubInit
    /\ SupervisorInit
    /\ LockInit
    /\ WhoInit /\ ParseQuiet /\ RouteQuiet /\ NewQuietExcept({})
    /\ RaidQuiet
    /\ PresenceInit
    /\ TelnetQuiet

SpecDispatch == SpecDispatchInit /\ [][HubNext]_vars

\* configurations whose enabled adapters are among the adapters of S
ConfigsOver(S) == {c \in Configs : \A a \in Adapters \ S : ~c.Enabled[a]}

ClientOtherQuiet ==
    /\ HubInit
    /\ SupervisorInit
    /\ LockInit
    /\ WhoInit /\ ParseQuiet /\ RouteQuiet /\ NewQuietExcept({})
    /\ RaidQuiet
    /\ PresenceInit
    /\ TelnetQuiet

\* the reconnect loop under every keep-alive setting, discord alone enabled
SpecKeepAliveInit ==
    /\ config \in {c \in ConfigsOver({"discord"}) : c.Enabled["discord"]}
    /\ ClientOtherQuiet

SpecKeepAlive == SpecKeepAliveInit /\ [][SupervisorNext]_vars

\* the reconnect loop under every choice of discord, telnet and nats
SpecSupervisorInit ==
    /\ config \in {c \in ConfigsOver({"discord", "telnet", "nats"}) :
                    c.KeepAliveRetry \in {"10s", "soon"}}
    /\ ClientOtherQuiet

SpecSupervisor == SpecSupervisorInit /\ [][SupervisorNext]_vars

\* the reconnect loop and the status goroutine together
SpecStatusInit ==
    /\ config \in {c \in ConfigsOver({"discord", "telnet"}) :
                    c.KeepAliveRetry \in {"10s", "soon"} /\ c.Enabled["discord"]}
    /\ ClientOtherQuiet

SpecStatus == SpecStatusInit /\ [][SupervisorNext \/ StatusNext]_vars

\* The Go scheduler runs the loop goroutine, so its select is evaluated and
\* its sleep ends; a Connect that does not fail for ever succeeds in some
\* round.
SupervisorQuietStep == UNCHANGED <<raidVars, presVars, telVars, hubVars, lockVars, whoVars, parseVars, routeVars, aucVars, discordVars, webSaveVars, sendVars, serverVars, verifyVars>>

LoopAgainStep == LoopAgain /\ SupervisorQuietStep

LoopExitStep == LoopExit /\ SupervisorQuietStep

\* a round in which the Connect of adapter a returns no error
TickOkStep(a) ==
    /\ \E fails \in Failures : ~fails[a] /\ LoopTick(fails)
    /\ SupervisorQuietStep

FairSpecSupervisor ==
    /\ SpecSupervisorInit
    /\ [][SupervisorNext]_vars
    /\ WF_vars(LoopAgainStep)
    /\ WF_vars(LoopExitStep)
    /\ \A a \in Supervised : SF_vars(TickOkStep(a))

(***************************************************************************)
(* Properties of the raid dump collector.                                  *)
(***************************************************************************)
\* C1: in every dump cycle finishDump runs at most once, whether the end
\* marker or the timer callback comes first
C1_FinishAtMostOnce == finishes <= 1

\* the end marker finished the cycle and the cycle's own timer callback ran
\* afterwards without finishing again
C1_Witness ==
    /\ lastOp = "late"
    /\ dumpTimer = "fired"
    /\ callbacks = 0
    /\ lastFinish.via = "marker"
    /\ finishes = 1

\* C2: a dump finished by the timer and a dump finished by an end marker
\* after the same lines give the same members and the same post decision
C2_TimerAndMarkerAgree ==
    [][(/\ finishes' = finishes + 1
        /\ lastFinish.via # "none"
        /\ lastFinish'.via # lastFinish.via
        /\ lastFinish'.lines = lastFinish.lines)
       => (/\ lastFinish'.members = lastFinish.members
           /\ lastFinish'.posted = lastFinish.posted)]_vars

\* a timeout finished a dump whose lines gave members, which were posted
C2_Witness ==
    /\ lastOp = "timeout"
    /\ lastFinish.via = "timer"
    /\ lastFinish.lines # <<>>
    /\ lastFinish.members # <<>>
    /\ lastFinish.posted

\* C3: once a start marker set collecting, the collector is eventually idle
\* again with an empty buffer, whatever lines do or do not arrive
C3_CollectionEnds == collecting ~> (~collecting /\ dumpLines = <<>>)

\* a dump that received no line at all was finished by its timer
C3_Witness ==
    /\ lastOp = "timeout"
    /\ ~collecting
    /\ dumpLines = <<>>
    /\ lastFinish.via = "timer"
    /\ lastFinish.lines = <<>>


(***************************************************************************)
(* Properties of the presence store.                                       *)
(***************************************************************************)
\* positions of the changes reported for name n
ChangesFor(n) == {i \in 1..Len(setRet.changes) : setRet.changes[i].Name = n}

\* C4: SetCharacters(B) with A current returns one change per name of the
\* symmetric difference of the key sets and none for another name, online
\* for the names only in B and offline for the names only in A, makes B the
\* current map and returns no error, for an empty B too
C4_SymmetricDifference ==
    dbOp = "set" =>
        LET A == DOMAIN prevCharacters
            B == DOMAIN lastReq
        IN  /\ setRet.err = "nil"
            /\ characters = lastReq
            /\ \A n \in B \ A :
                   /\ Cardinality(ChangesFor(n)) = 1
                   /\ \A i \in ChangesFor(n) : setRet.changes[i].Online
            /\ \A n \in A \ B :
                   /\ Cardinality(ChangesFor(n)) = 1
                   /\ \A i \in ChangesFor(n) : ~setRet.changes[i].Online
            /\ \A i \in 1..Len(setRet.changes) :
                   setRet.changes[i].Name \in (A \ B) \cup (B \ A)

\* one call reported an arrival and a departure
C4_Witness ==
    /\ dbOp = "set"
    /\ \E i, j \in 1..Len(setRet.changes) :
           setRet.changes[i].Online /\ ~setRet.changes[j].Online
    /\ characters = lastReq

\* C5: SetCharacters(B) directly after SetCharacters(B) returns no change
\* and leaves the current map and the online count as they were
C5_Idempotent ==
    (dbOp = "set" /\ dbRepeat) =>
        /\ setRet.changes = <<>>
        /\ characters = prevCharacters
        /\ onlineCount = prevCount

\* a non-empty map was set twice in a row
C5_Witness ==
    /\ dbOp = "set"
    /\ dbRepeat
    /\ DOMAIN lastReq # {}
    /\ onlineCount = Cardinality(DOMAIN lastReq)

(***************************************************************************)
(* Properties of the roster dump parser.                                   *)
(***************************************************************************)
NotificationsOn == tcfg.IsEnabled /\ tcfg.ChannelID # ""

\* C6: with player notifications enabled and a channel configured, the
\* first dump completed after a connect notifies nobody and every later
\* dump notifies every subscriber of every change; with notifications off
\* no dump notifies anybody
C6_FirstDumpSuppressed ==
    telOp = "dumpEnd" =>
        IF NotificationsOn /\ dumpsSinceConnect = 2
        THEN notified = SubscriberCalls(setRet.changes)
        ELSE notified = <<>>

\* a second dump with changes was notified to every subscriber
C6_Witness ==
    /\ telOp = "dumpEnd"
    /\ NotificationsOn
    /\ dumpsSinceConnect = 2
    /\ setRet.changes # <<>>
    /\ Len(notified) = Len(setRet.changes) * NumSubscribers

\* C6 as stated: the first dump after a connect notifies nobody and every
\* later dump notifies every change, whatever the configuration
C6_AsStated ==
    telOp = "dumpEnd" =>
        IF dumpsSinceConnect = 2
        THEN notified = SubscriberCalls(setRet.changes)
        ELSE notified = <<>>

(***************************************************************************)
(* Properties of the dispatch hub.                                         *)
(***************************************************************************)
KnownSources == {"peqeditorsql", "telnet", "nats", "discord", "eqlog"}

\* the adapters an event of the source is meant for
DestinationsOf(source) ==
    IF source = "discord" THEN {"telnet", "nats"}
    ELSE IF source \in KnownSources THEN {"discord"}
    ELSE {}

SentTo == {sends[i].to : i \in 1..Len(sends)}

\* C7: an event whose source has no enabled destination is dropped: no
\* Send is called and the drop is logged as such
C7_NoDestinationDropped ==
    (/\ lastEvent.source \in KnownSources
     /\ \A d \in DestinationsOf(lastEvent.source) : ~config.Enabled[d])
    => (sends = <<>> /\ endpoints = <<>> /\ hubLog = "dropped")

\* a discord event found telnet and nats both disabled
C7_Witness ==
    /\ lastEvent.source = "discord"
    /\ ~config.Enabled["telnet"]
    /\ ~config.Enabled["nats"]
    /\ config.Enabled["discord"]
    /\ hubLog = "dropped"

\* C8: for a discord event with telnet and nats enabled, nats.Send is
\* called whether or not telnet.Send returned an error
C8_FailureDoesNotAbort ==
    (/\ lastEvent.source = "discord"
     /\ config.Enabled["telnet"]
     /\ config.Enabled["nats"])
    => "nats" \in SentTo

\* telnet.Send failed and nats.Send was called after it
C8_Witness ==
    /\ lastEvent.source = "discord"
    /\ Len(sends) = 2
    /\ sends[1] = [to |-> "telnet", err |-> TRUE]
    /\ sends[2].to = "nats"
    /\ endpoints = <<"nats">>

\* C9: for every event Send is called at most once on each adapter and
\* never on the adapter the event came from
C9_AtMostOnceNotSource ==
    /\ \A i, j \in 1..Len(sends) : sends[i].to = sends[j].to => i = j
    /\ \A i \in 1..Len(sends) : sends[i].to # lastEvent.source

\* a send to discord failed and was not repeated
C9_Witness ==
    /\ lastEvent.source = "telnet"
    /\ sends = <<[to |-> "discord", err |-> TRUE]>>
    /\ endpoints = <<>>
    /\ hubLog = "sent"

(***************************************************************************)
(* Properties of the keep-alive supervisor.                                *)
(***************************************************************************)
\* C10: the loop never sleeps less than the floor: whatever keep_alive_retry
\* is configured, it sleeps max(configured, 10 s)
C10_IntervalFloored ==
    slept # -1 => slept = KeepAliveRetryDuration(config.KeepAliveRetry)


(***************************************************************************)
(* Properties of the reconnect loop and the status goroutine.              *)
(***************************************************************************)
\* C11: a round of the reconnect loop calls Connect on every adapter that
\* is enabled and not connected, whichever of the six it is, and on no
\* disabled adapter
C11_TickConnectsExactly ==
    supOp = "tick" =>
        \A a \in Adapters :
            /\ tick[a] = "none" => (~config.Enabled[a] \/ connected[a])
            /\ tick[a] # "none" => config.Enabled[a]

C13_NoSupervisorWithoutKeepAlive ==
    /\ [](~config.IsKeepAliveEnabled =>
            (phase # "looping" /\ tick = NoTick /\ slept = -1))
    /\ [][(~config.IsKeepAliveEnabled /\ phase \in {"running", "exited"})
            => \A a \in Adapters : ~connected[a] => ~connected'[a]]_vars

\* with keep-alive off an enabled adapter lost its connection after the
\* loop had returned
C13_Witness ==
    /\ ~config.IsKeepAliveEnabled
    /\ phase = "exited"
    /\ supOp = "drop"
    /\ config.Enabled["telnet"]
    /\ ~connected["telnet"]

\* C14: Client.Connect returns success and the loops are started whatever
\* Connect of an adapter failed and whatever the keep-alive setting
C14_ConnectNeverFails == supOp = "connect" => phase = "running"

\* C15: once Client.Disconnect has cancelled the client context, no round
\* of the reconnect loop calls Connect and no round of the status
\* goroutine calls Who or StatusUpdate
C15_NoCallsAfterShutdown ==
    cancelled =>
        /\ supOp = "tick" => tick = NoTick
        /\ supOp = "poll" => lastPoll = NoPoll

\* C16: the status goroutine is started with the loop whatever the
\* keep-alive setting, returns only when its context is done, and is at
\* its select again after every round, failed or not
C16_StatusLoopSurvives ==
    /\ phase \in {"looping", "exited"} => statusPc # "off"
    /\ statusPc = "exited" => ctxDone
    /\ supOp = "poll" => statusPc = "check"

\* with keep-alive off, a round whose Who and StatusUpdate failed was
\* followed by the next round
C16_Witness ==
    /\ ~config.IsKeepAliveEnabled
    /\ phase = "exited"
    /\ statusPc = "poll"
    /\ lastPoll = [who |-> "failed", update |-> "failed"]

(***************************************************************************)
(* Properties of the presence store under concurrent callers.              *)
(***************************************************************************)
\* C17: a reader inside CharactersOnline or CharactersOnlineCount never
\* runs while SetCharacters is between its first and its last statement,
\* the map its range iterates is the whole current map, and outside
\* SetCharacters the map it stored and the count it stored belong together
C17_ReadersSeeWholeSnapshot ==
    /\ \A r \in Readers :
          /\ rPc[r] # "idle" => wPc = "idle"
          /\ rPc[r] = "online" =>
                (rMap[r] = characters /\ rSeen[r] \subseteq DOMAIN characters)
    /\ (wPc = "idle" /\ dbOp = "set") => onlineCount = Cardinality(DOMAIN characters)

\* after a replacement of a non-empty map by another, one reader is half
\* way through the names and the other is inside CharactersOnlineCount
C17_Witness ==
    /\ dbOp = "set"
    /\ prevCharacters # EmptyRoster
    /\ characters # prevCharacters
    /\ rPc[1] = "online"
    /\ rSeen[1] # {}
    /\ rSeen[1] # DOMAIN rMap[1]
    /\ rPc[2] = "count"

\* C18: whatever dumps and count lines the parser has read, the count
\* CharactersOnlineCount returns is the number of entries of the stored map
C18_CountIsSnapshotSize == CharactersOnlineCount = Cardinality(DOMAIN characters)

(***************************************************************************)
(* Properties of CharactersOnline.                                         *)
(***************************************************************************)
\* the characters CharactersOnline hides
HiddenNames ==
    {n \in DOMAIN characters :
        \/ Contains(characters[n].State, <<"ANON">>)
        \/ Contains(characters[n].State, <<"RolePlay">>)}

\* the characters that are not hidden and match the filter
VisibleMatches(filter) ==
    {n \in DOMAIN characters \ HiddenNames :
        \/ filter = <<>>
        \/ Contains(characters[n].Name, filter)
        \/ Contains(characters[n].Zone, filter)}

\* the names in the lines of the returned string
ListedAt(out) == {i \in 2..Len(out) : out[i] = "\n"}

\* C19: the returned string lists at most 20 names, and it carries the
\* truncated indicator exactly when more than 20 visible characters match
C19_AtMostTwentyListed ==
    whoOut # <<>> =>
        /\ Cardinality(ListedAt(whoOut)) <= ListLimit
        /\ (\E i \in 1..Len(whoOut) : whoOut[i] = "(truncated) ")
              <=> Cardinality(VisibleMatches(whoFilter)) > ListLimit

\* C20: no anonymous or role-playing character is among the listed names
\* or in the player total of the returned string, and the string gives
\* their number as the hidden count
C20_HiddenExcludedAndCounted ==
    whoOut # <<>> =>
        /\ \A i \in ListedAt(whoOut) : <<whoOut[i - 1]>> \notin HiddenNames
        /\ whoOut[2] = ToString(Cardinality(VisibleMatches(whoFilter)))
        /\ HiddenNames # {} =>
              \E i \in 1..Len(whoOut) :
                  whoOut[i] = "(" \o ToString(Cardinality(HiddenNames)) \o " hidden) "

(***************************************************************************)
(* The roster dump parser: record lines and the end of a dump              *)
(***************************************************************************)

\* the pending roster after the record of char is stored under its name
WithCharacter(roster, char) ==
    [n \in DOMAIN roster \cup {char.Name} |->
        IF n = char.Name THEN char ELSE roster[n]]

\* C21 (as stated): while a dump is being collected, every line that
\* matches the player record pattern stores its Character in the pending
\* roster under its name, and the dump goes on, so that the roster handed to
\* SetCharacters holds every player whose record line arrived before the
\* terminator.
C21_RecordLineAlwaysStored ==
    [][\A msg \in RosterLines :
          (/\ isPlayerDump
           /\ MatchPlayerEntry(msg).ok
           /\ parsePlayerEntries(msg))
          => /\ isPlayerDump'
             /\ tCharacters' = WithCharacter(tCharacters, MatchPlayerEntry(msg).char)]_vars

\* C22 (as stated): while a dump is being collected, a line that is neither
\* the "players online" summary, nor a second start marker after the grace
\* window, nor a player record, is ignored: the collecting flag, the pending
\* roster and the presence snapshot stay as they are.
C22_OtherLinesIgnored ==
    [][\A msg \in RosterLines :
          (/\ isPlayerDump
           /\ ~IsPlayersFooter(msg)
           /\ ~(IsPlayersHeader(msg) /\ graceOver)
           /\ ~MatchPlayerEntry(msg).ok
           /\ parsePlayerEntries(msg))
          => UNCHANGED <<isPlayerDump, tCharacters, characters>>]_vars

(***************************************************************************)
(* The raid dump collector: the line buffer                                *)
(***************************************************************************)

\* what ProcessTelnetLine(line) leaves in the buffer: a blank line changes
\* nothing; while collecting, an end marker empties the buffer and any other
\* line is appended in its trimmed form; while idle the buffer stays empty
BufferAfter(line) ==
    LET trimmed == TrimSpace(line)
    IN  IF trimmed = <<>> THEN dumpLines
        ELSE IF ~collecting THEN <<>>
        ELSE IF MatchesEnd(trimmed) THEN <<>>
        ELSE Append(dumpLines, trimmed)

\* C23 (amended): while collecting, the buffer holds, in arrival order, the
\* whitespace-trimmed forms of the non-blank lines received since the start
\* marker that match no end marker (a further start-marker line among them);
\* the line that started the dump, end-marker lines and lines received while
\* idle are never in the buffer, which is empty whenever the collector is idle.
C23_BufferIsTrimmedLines ==
    /\ [](~collecting => dumpLines = <<>>)
    /\ [][\A line \in TelnetLines :
             (rcfg.IsEnabled /\ ProcessTelnetLine(line))
             => dumpLines' = BufferAfter(line)]_vars

\* a line with leading whitespace, then a pipe line, were appended to the
\* buffer of a running dump, the first one trimmed
C23_Witness ==
    /\ collecting
    /\ lastOp = "append"
    /\ dumpLines = <<TrimSpace(LNoise), LPipe>>
    /\ TrimSpace(LNoise) # LNoise

\* C23 (as stated): while collecting, every received line that matches no
\* end marker is appended to the buffer verbatim, and no start-marker line
\* is ever in the buffer.
C23_AsStated ==
    /\ [](\A i \in 1..Len(dumpLines) : ~MatchesStart(dumpLines[i]))
    /\ [][\A line \in TelnetLines :
             (/\ rcfg.IsEnabled
              /\ collecting
              /\ ~MatchesEnd(line)
              /\ ProcessTelnetLine(line))
             => dumpLines' = Append(dumpLines, line)]_vars

(***************************************************************************)
(* The raid dump collector: posting and notification                       *)
(***************************************************************************)

\* the last step finished a dump that gave at least one member
FinishedWithMembers ==
    /\ lastOp \in {"marker", "timeout"}
    /\ lastFinish.via # "none"
    /\ Len(lastFinish.members) > 0

\* Discord notification is configured
NotifyConfigured == rcfg.NotifyDiscord /\ rcfg.DiscordChannelID # ""

\* C24 (as stated): when a dump finishes with at least one member, the
\* member list goes on to notification whether or not auto-post is enabled,
\* a run of the attendance POST notifies the subscribers whether or not the
\* POST succeeded, and the POST is issued exactly when auto-post is enabled.
C24_NotificationIndependentOfPost ==
    /\ (FinishedWithMembers /\ NotifyConfigured) => lastFinish.members \in posts
    /\ (lastOp = "post" /\ NotifyConfigured) => lastPost.notified = RaidSubscriberCalls
    /\ FinishedWithMembers => (lastFinish.posted <=> rcfg.AutoPost)

\* the part of C24 the code keeps: the POST is started exactly when
\* auto-post is enabled
PostIffAutoPost ==
    FinishedWithMembers => ((lastFinish.members \in posts) <=> rcfg.AutoPost)

(***************************************************************************)
(* The raid dump parser                                                    *)
(***************************************************************************)

\* a call of ParseRaidDump has returned
DumpParsed == parseCall = "dump" /\ parseDone

\* the name of a member, ignoring case
FoldedName(member) == ToLowerTok(member.Name)

\* the lines of a dump that give a member named n, ignoring case
LinesNamed(lines, n) ==
    {i \in 1..Len(lines) :
        parseMemberLine(lines[i]).ok /\ FoldedName(parseMemberLine(lines[i])) = n}

\* the earliest of them
FirstLineNamed(lines, n) ==
    CHOOSE i \in LinesNamed(lines, n) : \A j \in LinesNamed(lines, n) : i <= j

\* C25: ParseRaidDump never returns two members whose names are equal
\* ignoring case; of the lines that give the same name ignoring case only
\* the member of the earliest line is kept, every name that some line gives
\* is kept once, and the kept members are in line order.
C25_FirstOccurrenceWins ==
    DumpParsed =>
        /\ \A k1, k2 \in 1..Len(outMembers) :
              FoldedName(outMembers[k1]) = FoldedName(outMembers[k2]) => k1 = k2
        /\ \A k \in 1..Len(outMembers) :
              /\ LinesNamed(parseArg, FoldedName(outMembers[k])) # {}
              /\ outMembers[k] =
                    parseMemberLine(parseArg[FirstLineNamed(parseArg, FoldedName(outMembers[k]))])
        /\ \A i \in 1..Len(parseArg) :
              parseMemberLine(parseArg[i]).ok =>
                 \E k \in 1..Len(outMembers) :
                    FoldedName(outMembers[k]) = FoldedName(parseMemberLine(parseArg[i]))
        /\ \A k1, k2 \in 1..Len(outMembers) :
              k1 < k2 => FirstLineNamed(parseArg, FoldedName(outMembers[k1]))
                           < FirstLineNamed(parseArg, FoldedName(outMembers[k2]))

\* two lines whose names differ only in case gave the member of the first
C25_Witness ==
    /\ DumpParsed
    /\ parseArg = <<LPipe, LPipeDup>>
    /\ outMembers = <<Member("A", 60, "WARRIOR", 1)>>

\* a call of parseMemberLine has returned
LineParsed == parseCall = "line" /\ parseDone

\* the k-th member pattern matches the line
PatternMatches(k, line) ==
    CASE k = 1 -> MatchPipe(line).ok
      [] k = 2 -> MatchColumns(line).ok
      [] k = 3 -> MatchParen(line).ok
      [] k = 4 -> MatchBracket(line).ok
      [] k = 5 -> MatchBare(line).ok

\* what the k-th format says the line holds: (group | name | level | class),
\* (name level class group), (name (level class)), ([group] name level class),
\* or a bare name that is not a header or footer word
Extraction(k, line) ==
    CASE k = 1 -> LET m == MatchPipe(line).m
                  IN  [ok |-> TRUE, Name |-> m[2], Level |-> Atoi(m[3]),
                       Class |-> normalizeClass(m[4]), GroupNumber |-> Atoi(m[1])]
      [] k = 2 -> LET m == MatchColumns(line).m
                  IN  [ok |-> TRUE, Name |-> m[1], Level |-> Atoi(m[2]),
                       Class |-> normalizeClass(m[3]), GroupNumber |-> Atoi(m[4])]
      [] k = 3 -> LET m == MatchParen(line).m
                  IN  [ok |-> TRUE, Name |-> m[1], Level |-> Atoi(m[2]),
                       Class |-> normalizeClass(m[3]), GroupNumber |-> 0]
      [] k = 4 -> LET m == MatchBracket(line).m
                  IN  [ok |-> TRUE, Name |-> m[2], Level |-> Atoi(m[3]),
                       Class |-> normalizeClass(m[4]), GroupNumber |-> Atoi(m[1])]
      [] k = 5 -> LET m == MatchBare(line).m
                  IN  IF ToLowerTok(m[1]) \in StopWords
                      THEN NoMember
                      ELSE [ok |-> TRUE, Name |-> m[1], Level |-> 0,
                            Class |-> "", GroupNumber |-> 0]

\* C26: parseMemberLine returns the extraction of the first of the five
\* patterns, in their fixed order, that matches the line, never that of a
\* later one, and no member for a line that matches none.
C26_FirstPatternWins ==
    LineParsed =>
        LET line == parseArg[1]
            matching == {k \in 1..5 : PatternMatches(k, line)}
        IN  IF matching = {}
            THEN ~outMember.ok
            ELSE \E k \in matching :
                    /\ \A j \in matching : k <= j
                    /\ outMember = Extraction(k, line)

\* a line in the fourth format was parsed after the first three patterns
\* had not matched it
C26_Witness ==
    /\ LineParsed
    /\ parseArg = <<LBracket>>
    /\ \A k \in 1..3 : ~PatternMatches(k, LBracket)
    /\ outMember = Member("Bob", 55, "CLERIC", 2)

\* the line 'g | n | l | c'
PipeLine(g, n, l, c) == <<g, " ", "|", " ", n, " ", "|", " ", l, " ", "|", " ">> \o c

\* class texts of two or more characters, and all class texts tried
LongClasses == {<<"Warrior">>, <<"Cleric">>}
PipeClasses == LongClasses \cup {<<"A">>}

\* line i is the first line of the dump that gives its name, ignoring case
FirstOfItsName(lines, i) ==
    \A j \in 1..(i - 1) :
        parseMemberLine(lines[j]).ok =>
            FoldedName(parseMemberLine(lines[j])) # FoldedName(parseMemberLine(lines[i]))

\* header and footer lines of a dump
IsHeaderOrFooter(line) == MatchesStart(line) \/ MatchesEnd(line)

\* every pipe line of the dump with a class text of classes, restricted to
\* the lines that satisfy first, is returned with its four fields
PipeLinesYield(classes, first(_, _)) ==
    \A i \in 1..Len(parseArg) :
      \A g \in DigitTokens, n \in WordTokens, l \in DigitTokens, c \in classes :
        (parseArg[i] = PipeLine(g, n, l, c) /\ first(parseArg, i))
        => \E k \in 1..Len(outMembers) :
              outMembers[k] = [ok |-> TRUE, Name |-> n, Level |-> Atoi(l),
                               Class |-> normalizeClass(c), GroupNumber |-> Atoi(g)]

\* header and footer lines give no member, and the example dump gives
\* exactly its two members
HeaderFooterSkipped ==
    /\ Len(outMembers) <= Cardinality({i \in 1..Len(parseArg) : ~IsHeaderOrFooter(parseArg[i])})
    /\ parseArg = ExampleDump =>
          outMembers = <<[ok |-> TRUE, Name |-> "A", Level |-> 60,
                          Class |-> "WARRIOR", GroupNumber |-> 1],
                         [ok |-> TRUE, Name |-> "B", Level |-> 55,
                          Class |-> "CLERIC", GroupNumber |-> 2]>>

AnyLine(lines, i) == TRUE

\* C27 (amended): every pipe-delimited line 'G | N | L | C' with a class
\* text of at least two characters that is the first line of the dump to
\* give its name, ignoring case, yields the member {N, L, normalizeClass(C),
\* G}; header and footer lines yield no member; the example dump yields
\* exactly {A,60,WARRIOR,1} and {B,55,CLERIC,2}.
C27_FirstPipeLinesYield ==
    DumpParsed => (PipeLinesYield(LongClasses, FirstOfItsName) /\ HeaderFooterSkipped)

\* the example dump was parsed into its two members
C27_Witness ==
    /\ DumpParsed
    /\ parseArg = ExampleDump
    /\ Len(outMembers) = 2
    /\ outMembers[1].Name = "A" /\ outMembers[1].GroupNumber = 1
    /\ outMembers[2].Name = "B" /\ outMembers[2].Class = "CLERIC"

\* C27 (as stated): every pipe-delimited line 'G | N | L | C' of the dump
\* yields the member {N, L, normalizeClass(C), G}; header and footer lines
\* yield no member; the example dump yields exactly its two members.
C27_AsStated ==
    DumpParsed => (PipeLinesYield(PipeClasses, AnyLine) /\ HeaderFooterSkipped)

\* the header and footer words that are no names
HeaderFooterWords ==
    {"name", "player", "class", "level", "group", "raid", "members", "total"}

\* line is a bare name of at least two word characters
IsBareName(line) ==
    /\ Len(line) = 1
    /\ line[1] \in WordTokens \cup DigitTokens
    /\ line[1] \notin SingleCharTokens

\* lines without its i-th line
WithoutLine(lines, i) == SubSeq(lines, 1, i - 1) \o SubSeq(lines, i + 1, Len(lines))

\* a bare header or footer word is never counted: the dump gives the same
\* members without that line
StopWordsNotCounted ==
    \A i \in 1..Len(parseArg) :
        (IsBareName(parseArg[i]) /\ ToLowerTok(parseArg[i][1]) \in HeaderFooterWords)
        => outMembers = ParseRaidDump(WithoutLine(parseArg, i))

\* every other bare name, restricted to the lines that satisfy first, is
\* returned as a member with only its name set
BareNamesCounted(first(_, _)) ==
    \A i \in 1..Len(parseArg) :
        (/\ IsBareName(parseArg[i])
         /\ ToLowerTok(parseArg[i][1]) \notin HeaderFooterWords
         /\ first(parseArg, i))
        => \E k \in 1..Len(outMembers) :
              outMembers[k] = [ok |-> TRUE, Name |-> parseArg[i][1], Level |-> 0,
                               Class |-> "", GroupNumber |-> 0]

\* C28 (amended): a line that is a bare name equal, ignoring case, to one of
\* name, player, class, level, group, raid, members, total is never counted
\* as a member; every other bare name of at least two word characters that
\* is the first line of the dump to give that name, ignoring case, is
\* counted as a member with only its name set.
C28_StopListAndBareNames ==
    DumpParsed => (StopWordsNotCounted /\ BareNamesCounted(FirstOfItsName))

\* a header word was skipped and the bare name after it counted
C28_Witness ==
    /\ DumpParsed
    /\ parseArg = <<LBareHeader, LBare>>
    /\ outMembers = <<[ok |-> TRUE, Name |-> "Bob", Level |-> 0,
                       Class |-> "", GroupNumber |-> 0]>>

\* C28 (as stated): a bare header or footer word is never counted as a
\* member, and every other bare name of at least two word characters is
\* counted as a member with only its name set.
C28_AsStated ==
    DumpParsed => (StopWordsNotCounted /\ BareNamesCounted(AnyLine))

(***************************************************************************)
(* normalizeClass                                                          *)
(***************************************************************************)

\* a call of normalizeClass has returned
ClassNormalized == parseCall = "class" /\ parseDone

\* the canonical tokens of the lookup table
CanonicalClasses ==
    {"BARD", "BEASTLORD", "BERSERKER", "CLERIC", "DRUID", "ENCHANTER", "MAGICIAN",
     "MONK", "NECROMANCER", "PALADIN", "RANGER", "ROGUE", "SHADOWKNIGHT", "SHAMAN",
     "WARRIOR", "WIZARD"}

\* the token each class text stands for, ignoring case and surrounding
\* whitespace
ExpectedClass(input) ==
    CASE input = <<"Warrior">> -> "WARRIOR"
      [] input = <<"shadow", " ", "knight">> -> "SHADOWKNIGHT"
      [] input = <<"Shadow", " ", "Knight">> -> "SHADOWKNIGHT"
      [] input = <<"ShadowKnight">> -> "SHADOWKNIGHT"
      [] input = <<"Cleric">> -> "CLERIC"
      [] input = <<"WIZARD">> -> "WIZARD"
      [] input = <<" ", "WIZARD", "\t">> -> "WIZARD"
      [] OTHER -> "UNKNOWN"

\* C29: normalizeClass returns for every input, and what it returns is the
\* canonical token of the table entry the input equals ignoring case and
\* surrounding whitespace ("shadow knight" and "shadowknight" both giving
\* SHADOWKNIGHT), or UNKNOWN when there is no such entry, as for the empty
\* string.
C29_NormalizeClassTotal ==
    /\ (parseCall = "class" /\ ~parseDone) => ENABLED normalizeClassCall
    /\ ClassNormalized =>
          /\ outClass \in CanonicalClasses \cup {"UNKNOWN"}
          /\ outClass = ExpectedClass(parseArg[1])

\* a class text in capitals with whitespace around it was normalized
C29_Witness ==
    /\ ClassNormalized
    /\ parseArg = << <<" ", "WIZARD", "\t">> >>
    /\ outClass = "WIZARD"

(***************************************************************************)
(* Routes                                                                  *)
(***************************************************************************)

\* the trigger regex does not compile or the message pattern does not parse
InvalidRoute == ~Compiles(route.Regex) \/ ~Parses(route.MessagePattern)

\* C30 (as stated): LoadMessagePattern returns an error for every Route with
\* an invalid trigger regex or an unparsable message template, and a route
\* that passed load never presents a missing compiled regex (when its
\* trigger is the regex form) or a missing template when it is evaluated.
C30_InvalidRoutesFailAtLoad ==
    /\ (loadErr # "none" /\ InvalidRoute) => loadErr = "error"
    /\ (gotRegex # "none" /\ route.IsEnabled /\ route.Custom = "") => gotRegex = "compiled"
    /\ (gotTemplate # "none" /\ route.IsEnabled) => gotTemplate = "parsed"

\* what the loader does guarantee: an enabled route that passed load has a
\* parsed template, and a compiled regex when its regex is set and active
LoadedRouteCompiled ==
    (loadErr = "nil" /\ route.IsEnabled) =>
        /\ messagePatternTemplate = "parsed"
        /\ (route.Regex # "" /\ route.Custom = "") => triggerRegex = "compiled"

\* an enabled route with neither a regex nor a custom trigger passed load
\* and presented no compiled regex
MissingRegexPresented ==
    /\ route.IsEnabled
    /\ route.Regex = "" /\ route.Custom = ""
    /\ loadErr = "nil"
    /\ gotRegex = "nil"

(***************************************************************************)
(* Routes: the active trigger form                                         *)
(***************************************************************************)

\* the regex form is active: the route holds a compiled regex
RegexFormActive == triggerRegex = "compiled"

\* the custom form is active: the route names a custom event
CustomFormActive == route.Custom # ""

\* C31 (as stated): after load, every enabled Route has exactly one active
\* trigger form: a compiled regex and no custom event name, or a custom
\* event name and no compiled regex, never both and never neither.
C31_ExactlyOneTriggerForm ==
    (loadErr = "nil" /\ route.IsEnabled) =>
        /\ RegexFormActive \/ CustomFormActive
        /\ ~(RegexFormActive /\ CustomFormActive)

\* what the loader does guarantee: never both forms at once
NeverBothForms ==
    (loadErr = "nil" /\ route.IsEnabled) => ~(RegexFormActive /\ CustomFormActive)

(***************************************************************************)
(* Auction messages                                                        *)
(***************************************************************************)

\* the message contains the three-letter keyword, ignoring case
HoldsKeyword(message, a, b, c) ==
    \E i \in 1..(Len(message) - 2) :
        /\ message[i] \in {a, ToUpperChar(a)}
        /\ message[i + 1] \in {b, ToUpperChar(b)}
        /\ message[i + 2] \in {c, ToUpperChar(c)}

HoldsWTS(message) == HoldsKeyword(message, "w", "t", "s")
HoldsWTB(message) == HoldsKeyword(message, "w", "t", "b")

\* C32: Parse gives ListingMixed exactly for the messages that contain both
\* WTS and WTB, ListingWTB exactly for those that contain WTB and not WTS,
\* and ListingWTS for all others, keywords compared ignoring case; and
\* IsAuctionMessage is true exactly for the messages with WTS or WTB.
C32_ClassifiedByKeywords ==
    (aucDone /\ aucListing # NoListing) =>
        /\ aucListing.Type = "ListingMixed" <=> (HoldsWTS(aucMessage) /\ HoldsWTB(aucMessage))
        /\ aucListing.Type = "ListingWTB" <=> (HoldsWTB(aucMessage) /\ ~HoldsWTS(aucMessage))
        /\ aucListing.Type = "ListingWTS" <=> ~HoldsWTB(aucMessage)
        /\ aucIs <=> (HoldsWTS(aucMessage) \/ HoldsWTB(aucMessage))

\* a message with WTS in mixed case directly followed by wtb in small letters
\* was classified as mixed
C32_Witness ==
    /\ aucDone
    /\ aucMessage = <<"W", "t", "s", "w", "t", "b">>
    /\ aucListing.Type = "ListingMixed"
    /\ aucIs

(***************************************************************************)
(* Raid dump collector: stale timer callbacks                              *)
(***************************************************************************)

\* C33: a timer callback finishes only the cycle that armed its timer: a
\* dump is finished by timeout only when the timer of the current cycle has
\* fired, never by the callback of an earlier cycle while the current
\* cycle's timer is still armed.
C33_OwnTimerOnly == (lastOp = "timeout") => dumpTimer = "fired"

(***************************************************************************)
(* Discord adapter                                                         *)
(***************************************************************************)

\* C34: whenever Connect returns an error, whichever step failed, the
\* adapter reports that it is not connected afterwards.
C34_FailedConnectNotConnected ==
    (discordOp = "connect" /\ discordErr \notin {"none", "nil"}) => ~DiscordIsConnected

\* a Connect that fails before the session is open leaves the flag as it was
OpenFailureKeepsFlag ==
    [][(discordOp' = "connect" /\ discordErr' \in {"new", "open"})
         => discord'.isConnected = discord.isConnected]_vars

(***************************************************************************)
(* Dashboard: saving the configuration                                     *)
(***************************************************************************)

\* C35: no token value is accepted for two successful saves: every save
\* answered 200 rotates the token (csrfToken counts the rotations), so the
\* saves answered 200 carry as many different tokens as there were such saves.
C35_TokenUsedOnce == Cardinality(okTokens) = csrfToken

\* the requests the limiter admitted in the window of one minute ending at a
AdmittedInWindow(a) ==
    {i \in DOMAIN admitted : admitted[i] > a - SaveWindow /\ admitted[i] <= a}

\* a step in which the limiter turns a POST away
RejectedByLimiter ==
    /\ lastAnswer' = 429
    /\ webNow' = webNow
    /\ savers' = savers

\* a step in which a POST gets past the limiter: it is turned away for its
\* token or its body, or goes on to be applied
PastLimiter ==
    \/ lastAnswer' \in {400, 403, 413} /\ webNow' = webNow /\ savers' = savers
    \/ \E r \in Savers : savers[r].pc = "idle" /\ savers'[r].pc = "decoded"

\* C36: the limiter admits at most SaveLimit requests in any window of one
\* minute and never records more than SaveLimit timestamps; a POST it
\* rejects changes neither the in-memory configuration, the file nor the
\* token; and every POST that gets past it, whatever its token and body,
\* is recorded, so that it counts against the limit.
C36_LimiterBoundsSaves ==
    /\ [](/\ Len(saveLimiter) <= SaveLimit
          /\ \A a \in 0..MaxTime : Cardinality(AdmittedInWindow(a)) <= SaveLimit)
    /\ [][RejectedByLimiter =>
            /\ fullConfig' = fullConfig
            /\ confFile' = confFile
            /\ csrfToken' = csrfToken
            /\ admitted' = admitted]_vars
    /\ [][PastLimiter =>
            /\ admitted' = Append(admitted, webNow)
            /\ saveLimiter' = Append(Pruned(saveLimiter, webNow), webNow)]_vars

\* five POSTs were admitted and each answered with an error, none saved
\* anything, and the sixth within the minute was rejected
C36_Witness ==
    /\ lastAnswer = 429
    /\ Len(saveLimiter) = SaveLimit
    /\ Len(admitted) = SaveLimit
    /\ \A r \in Savers : savers[r].pc = "idle"
    /\ csrfToken = 0
    /\ confFile = "old"

\* C37: a save answered with an error status has not changed the in-memory
\* configuration.
C37_ErrorLeavesConfig ==
    [][\A r \in Savers :
         (savers[r].pc # "idle" /\ savers'[r].pc = "idle" /\ lastAnswer' >= 400)
            => ~savers[r].changed]_vars

(***************************************************************************)
(* Webhook: POST /api/send                                                 *)
(***************************************************************************)

\* the request passes every check of /api/send
SendPassed ==
    /\ sendReq.Method = "POST"
    /\ \/ sendConfig.Token = ""
       \/ sendReq.Authorization \in {<<"Bearer", " ", sendConfig.Token>>,
                                     <<"BEARER", " ", sendConfig.Token>>}
    /\ sendReq.Body.JSON
    /\ sendReq.Body.Channel \in {"ooc", "Guild"}
    /\ sendReq.Body.Message # ""
    /\ sendReq.Body.Sender # ""

\* C38: subscribers are called only for a request that passed every check;
\* then every subscriber is called once, in order, whatever the earlier ones
\* returned, and the answer is 200 iff one of them succeeded, else 503; a
\* request that fails a check is answered with neither.
C38_SendCallsEverySubscriber ==
    sendAnswer # NoSend =>
        IF SendPassed
        THEN /\ sendAnswer.calls = [i \in 1..Len(sendSubs) |-> i]
             /\ sendAnswer.status = 200 <=> (\E i \in DOMAIN sendSubs : sendSubs[i] = "ok")
             /\ sendAnswer.status \in {200, 503}
        ELSE /\ sendAnswer.calls = <<>>
             /\ sendAnswer.status \in {400, 401, 405}

\* with a token configured and presented, the first subscriber failed, the
\* second was still called and the request answered 200
C38_Witness ==
    /\ sendConfig.Token = "secret"
    /\ sendReq.Authorization = <<"BEARER", " ", "secret">>
    /\ SendPassed
    /\ sendSubs = <<"fail", "ok">>
    /\ sendAnswer = [status |-> 200, calls |-> <<1, 2>>]

(***************************************************************************)
(* Webhook and dashboard servers: the health flag                          *)
(***************************************************************************)

\* C39: IsConnected() is true whenever the server of the most recent Connect
\* is still serving, whatever became of earlier servers, and false once
\* that server has stopped and its goroutine has run.
C39_FlagTracksServer ==
    /\ srvServer \in srvServing => ServerIsConnected
    /\ (srvDisconnect = "idle" /\ srvServer \notin srvServing \cup srvReturned)
          => ~ServerIsConnected

(***************************************************************************)
(* Listener addresses                                                      *)
(***************************************************************************)

\* the host settings that bind a loopback address
LoopbackHosts ==
    {HostLoopback, HostLocalhost, HostV6Loopback, HostNoPort, <<"127.0.0.1", ":", "9934">>}

\* C40: an enabled dashboard or webhook configuration that Verify accepts
\* binds a loopback address (127.0.0.1, localhost or ::1), and the webhook
\* accepts every loopback form its error message names, ::1 included.
C40_ListenersLocalOnly ==
    /\ (webVerified = "nil" /\ webConf.IsEnabled) => webConf.Host \in LoopbackHosts
    /\ (hookVerified = "nil" /\ hookConf.IsEnabled) => hookConf.Host \in LoopbackHosts
    /\ (hookVerified # "none" /\ hookConf.IsEnabled /\ hookConf.Host \in LoopbackHosts)
          => hookVerified = "nil"

\* a dashboard configuration that Verify accepts binds a loopback address
WebLeavesOnlyLoopback ==
    (webVerified = "nil" /\ webConf.IsEnabled) => webConf.Host \in LoopbackHosts

\* a webhook configuration that Verify accepts binds a loopback address
WebhookAcceptsOnlyLoopback ==
    (hookVerified = "nil" /\ hookConf.IsEnabled) => hookConf.Host \in LoopbackHosts

\* the webhook accepts the loopback address ::1 with a port
WebhookAcceptsV6Loopback ==
    (hookVerified # "none" /\ hookConf.IsEnabled /\ hookConf.Host = HostV6Loopback)
        => hookVerified = "nil"
=============================================================================
